---- MODULE Spec2Model ----
(***************************************************************************)
(* Registry, cache and dispatch core of the LLM platform backend.          *)
(*                                                                         *)
(* Remote family : HuggingFace/hf_model_manager.py (Metadata Store) and    *)
(*                 HuggingFace/hf_service.py (Load Cache, Pipeline Cache,  *)
(*                 Parameter Resolver, Generation Dispatcher).             *)
(* Local family  : models/model_manager.py and services/route_handlers.py. *)
(*                                                                         *)
(* Python dicts are functions whose DOMAIN is the set of keys, lists are   *)
(* sequences, None is the empty tuple.  A timestamp string                 *)
(* datetime.now().isoformat() is the one-element tuple holding the reading *)
(* of the clock, so that None and a timestamp can be compared.  json.dump  *)
(* followed by json.load gives back the same dict for the values used here *)
(* (strings, integers, booleans, null, lists and string-keyed dicts).      *)
(***************************************************************************)
EXTENDS Integers, Sequences, FiniteSets, TLC

VARIABLES
    clock,                  \* reading of datetime.now()
    disk_writable,          \* whether open(file, 'w') succeeds
    hf_models_json_file,    \* content of the remote family's JSON file
    cuda_available,         \* TORCH_AVAILABLE and torch.cuda.is_available()
    _model_cache,           \* HuggingFaceService._model_cache
    _pipeline_cache,        \* HuggingFaceService._pipeline_cache
    load_sequences,         \* per identifier: load sequences started so far
    last,                   \* the most recent call and its result
    usage_calls,            \* per identifier: successful update_model_usage calls since it was added
    first_use,              \* per identifier: clock of the first of these calls
    upload_folder,          \* directory entries of the local family's upload folder
    models_json_file,       \* content of the local family's JSON file
    _llm_cache,             \* LLMService._llm_cache
    create_calls,           \* calls of LLMService._create_llm so far
    threads                 \* per request thread: where it is in the service and its locals

store_vars == <<hf_models_json_file, usage_calls, first_use>>
service_vars == <<_model_cache, _pipeline_cache, load_sequences>>
env_vars == <<disk_writable, cuda_available>>
local_vars == <<upload_folder, models_json_file>>
llm_vars == <<_llm_cache, create_calls>>
vars == <<clock, env_vars, store_vars, service_vars, local_vars, llm_vars, last, threads>>

----------------------------------------------------------------------------
(* Bounds of the model.                                                    *)

\* the clock stops at MaxClock
MaxClock == 2
\* update_model_usage is not called on a model used MaxUsage times already
MaxUsage == 2
\* the service starts no more than MaxLoads load sequences in all
MaxLoads == 2
\* the service generates successfully no more than MaxGenerated times in all
MaxGenerated == 1
\* no upload is made while the local snapshot lists MaxModels descriptors
MaxModels == 2
\* the local service calls _create_llm no more than MaxCreated times in all
MaxCreated == 2

----------------------------------------------------------------------------
(* Python values.                                                          *)

None == <<>>

EmptyDict == [k \in {} |-> 0]

isoformat(t) == <<t>>

\* d.get(k, default)
Get(d, k, default) == IF k \in DOMAIN d THEN d[k] ELSE default

\* {**a, **b}, and a.update(b): the keys of b win
Merge(a, b) ==
    [k \in (DOMAIN a) \cup (DOMAIN b) |-> IF k \in DOMAIN b THEN b[k] ELSE a[k]]

\* the sum of the values of a function to the naturals
RECURSIVE SumOver(_, _)
SumOver(f, keys) ==
    IF keys = {} THEN 0
    ELSE LET k == CHOOSE x \in keys : TRUE IN f[k] + SumOver(f, keys \ {k})

Total(f) == SumOver(f, DOMAIN f)

\* index of the first element of s that satisfies P, 0 when there is none
FirstIndex(s, P(_)) ==
    IF \E i \in DOMAIN s : P(s[i])
    THEN CHOOSE i \in DOMAIN s : P(s[i]) /\ \A j \in 1..(i - 1) : ~P(s[j])
    ELSE 0

\* what a manager call did: the file it leaves, the exception it raised ("" when
\* none) and the value it returned
Returned(file, v) == [file |-> file, raised |-> "", ret |-> v]
Raised(file, msg) == [file |-> file, raised |-> msg, ret |-> None]

----------------------------------------------------------------------------
(* Remote family: the Metadata Store, HuggingFaceModelManager.             *)

NoFile == <<>>

load_hf_models_list(file) ==
    IF file = NoFile THEN [models |-> <<>>] ELSE file[1]

\* the file after save_hf_models_list: the whole document is written, or open()
\* raises, the exception is logged and the file keeps its content
save_hf_models_list(file, models_data, write_ok) ==
    IF write_ok THEN <<models_data>> ELSE file

required_fields == <<"model_id", "name", "model_type">>

\* the first required field that model_info lacks, 0 when it has them all
missing_field(model_info) ==
    FirstIndex(required_fields, LAMBDA field : field \notin DOMAIN model_info)

\* a duplicate check that looks at the first descriptor only
already_exists_first_only(existing_models, model_id) ==
    existing_models # <<>> /\ existing_models[1]["model_id"] = model_id

already_exists(existing_models, model_id) ==
    \E i \in DOMAIN existing_models : existing_models[i]["model_id"] = model_id

\* a registration that counts itself as a use
new_model_used(model_info, current_time) ==
    [model_id    |-> model_info["model_id"],
     name        |-> model_info["name"],
     model_type  |-> model_info["model_type"],
     description |-> Get(model_info, "description", ""),
     parameters  |-> Get(model_info, "parameters", EmptyDict),
     added_date  |-> current_time,
     last_used   |-> current_time,
     usage_count |-> 1,
     status      |-> "available"]

new_model(model_info, current_time) ==
    [model_id    |-> model_info["model_id"],
     name        |-> model_info["name"],
     model_type  |-> model_info["model_type"],
     description |-> Get(model_info, "description", ""),
     parameters  |-> Get(model_info, "parameters", EmptyDict),
     added_date  |-> current_time,
     last_used   |-> None,
     usage_count |-> 0,
     status      |-> "available"]

\* a snapshot that gets the new list but is not counted again
with_models_not_counted(models_data, models, current_time) ==
    Merge(models_data, [models |-> models, last_updated |-> current_time])

\* models_data with its list replaced, stamped and counted
with_models(models_data, models, current_time) ==
    Merge(models_data, [models       |-> models,
                        last_updated |-> current_time,
                        count        |-> Len(models)])

\* add_hf_model from the snapshot it has read: what it writes, returns or raises
record_model(file, models_data, model_info, current_time, write_ok) ==
    LET existing_models == Get(models_data, "models", <<>>)
    IN  IF missing_field(model_info) # 0
        THEN Raised(file, "Missing required field: "
                          \o required_fields[missing_field(model_info)])
        ELSE IF already_exists(existing_models, model_info["model_id"])
        THEN Raised(file, "Model with ID '" \o model_info["model_id"] \o "' already exists")
        ELSE Returned(save_hf_models_list(file,
                          with_models(models_data,
                                      Append(existing_models,
                                             new_model(model_info, current_time)),
                                      current_time),
                          write_ok),
                      new_model(model_info, current_time))

add_hf_model(file, model_info, current_time, write_ok) ==
    record_model(file, load_hf_models_list(file), model_info, current_time, write_ok)

\* a removal that cuts the list at the first match
without_model_truncating(models, model_id) ==
    LET i == FirstIndex(models, LAMBDA m : m["model_id"] = model_id)
    IN  IF i = 0 THEN models ELSE SubSeq(models, 1, i - 1)

\* [m for m in models if m['model_id'] != model_id]
without_model(models, model_id) ==
    SelectSeq(models, LAMBDA m : m["model_id"] # model_id)

remove_hf_model(file, model_id, now, write_ok) ==
    LET models_data == load_hf_models_list(file)
        original_count == Len(Get(models_data, "models", <<>>))
        kept == without_model(Get(models_data, "models", <<>>), model_id)
    IN  IF Len(kept) = original_count
        THEN Raised(file, "Model with ID '" \o model_id \o "' not found")
        ELSE Returned(save_hf_models_list(file, with_models(models_data, kept, now), write_ok),
                      with_models(models_data, kept, now))

\* a lookup that makes up a descriptor for the identifier it does not find
get_hf_model_implied(file, model_id) ==
    LET models == Get(load_hf_models_list(file), "models", <<>>)
        i == FirstIndex(models, LAMBDA m : m["model_id"] = model_id)
    IN  IF i = 0
        THEN new_model([model_id |-> model_id, name |-> model_id,
                        model_type |-> "text-generation"], isoformat(0))
        ELSE models[i]

get_hf_model(file, model_id) ==
    LET models == Get(load_hf_models_list(file), "models", <<>>)
        i == FirstIndex(models, LAMBDA m : m["model_id"] = model_id)
    IN  IF i = 0 THEN None ELSE models[i]

\* a recorded use that sets the counter instead of incrementing it
used_model_once(model, current_time) ==
    Merge(model, [last_used |-> current_time, usage_count |-> 1])

\* the descriptor after one recorded use
used_model(model, current_time) ==
    Merge(model, [last_used   |-> current_time,
                  usage_count |-> Get(model, "usage_count", 0) + 1])

\* update_model_usage from the snapshot it has read: what it writes and returns
record_usage(file, models_data, model_id, current_time, write_ok) ==
    LET models == Get(models_data, "models", <<>>)
        i == FirstIndex(models, LAMBDA m : m["model_id"] = model_id)
        saved == Merge(models_data,
                       [models       |-> [models EXCEPT ![i] = used_model(models[i], current_time)],
                        last_updated |-> current_time])
    IN  IF i = 0
        THEN Returned(file, FALSE)
        ELSE Returned(save_hf_models_list(file, saved, write_ok), TRUE)

\* a recorded use that registers the identifier it does not find
update_model_usage_registering(file, model_id, current_time, write_ok) ==
    LET models_data == load_hf_models_list(file)
        implied == new_model([model_id |-> model_id, name |-> model_id,
                              model_type |-> "text-generation"], current_time)
    IN  IF get_hf_model(file, model_id) = None
        THEN Returned(save_hf_models_list(file,
                          with_models(models_data,
                                      Append(Get(models_data, "models", <<>>), implied),
                                      current_time),
                          write_ok),
                      TRUE)
        ELSE record_usage(file, models_data, model_id, current_time, write_ok)

update_model_usage(file, model_id, current_time, write_ok) ==
    record_usage(file, load_hf_models_list(file), model_id, current_time, write_ok)

protected_fields == {"model_id", "added_date", "usage_count"}

\* an update that writes every key of the payload
updated_model_unprotected(model, updates) == Merge(model, updates)

\* the descriptor after model[key] = value for every key that is not protected
updated_model(model, updates) ==
    Merge(model, [key \in (DOMAIN updates) \ protected_fields |-> updates[key]])

\* update_model_info from the snapshot it has read: what it writes, returns or raises
record_info(file, models_data, model_id, updates, now, write_ok) ==
    LET models == Get(models_data, "models", <<>>)
        i == FirstIndex(models, LAMBDA m : m["model_id"] = model_id)
        saved == Merge(models_data,
                       [models       |-> [models EXCEPT ![i] = updated_model(models[i], updates)],
                        last_updated |-> now])
    IN  IF i = 0
        THEN Raised(file, "Model with ID '" \o model_id \o "' not found")
        ELSE Returned(save_hf_models_list(file, saved, write_ok),
                      updated_model(models[i], updates))

update_model_info(file, model_id, updates, now, write_ok) ==
    record_info(file, load_hf_models_list(file), model_id, updates, now, write_ok)

\* a maximum that keeps the last of the descriptors with the greatest count
most_used_last(models) ==
    IF models = <<>> THEN None
    ELSE models[CHOOSE i \in DOMAIN models :
                   \A j \in DOMAIN models :
                      /\ Get(models[j], "usage_count", 0) <= Get(models[i], "usage_count", 0)
                      /\ j > i => Get(models[j], "usage_count", 0)
                                    < Get(models[i], "usage_count", 0)]

\* max(models, key=lambda x: x.get('usage_count', 0)) if models else None: max
\* returns the first of the items with the greatest key
most_used(models) ==
    IF models = <<>> THEN None
    ELSE models[CHOOSE i \in DOMAIN models :
                   \A j \in DOMAIN models :
                      /\ Get(models[j], "usage_count", 0) <= Get(models[i], "usage_count", 0)
                      /\ j < i => Get(models[j], "usage_count", 0)
                                    < Get(models[i], "usage_count", 0)]

get_statistics(file) ==
    LET models_data == load_hf_models_list(file)
        models == Get(models_data, "models", <<>>)
        types == {Get(models[i], "model_type", "unknown") : i \in DOMAIN models}
    IN  [total_models |-> Len(models),
         total_usage  |-> SumOver([i \in DOMAIN models |-> Get(models[i], "usage_count", 0)],
                                  DOMAIN models),
         model_types  |-> [t \in types |->
                              Cardinality({i \in DOMAIN models :
                                             Get(models[i], "model_type", "unknown") = t})],
         last_updated |-> Get(models_data, "last_updated", None),
         most_used    |-> most_used(models)]

\* the descriptors of the persisted snapshot, and their identifiers
hf_models == Get(load_hf_models_list(hf_models_json_file), "models", <<>>)
Registered == {hf_models[i]["model_id"] : i \in DOMAIN hf_models}

----------------------------------------------------------------------------
(* The requests the remote Metadata Store is driven with.                  *)

ModelIds == {"m1", "m1_x"}

ModelInfos ==
    { [model_id |-> "m1", name |-> "Model One", model_type |-> "text-generation",
       parameters |-> [max_new_tokens |-> 50, num_beams |-> 2]],
      [model_id |-> "m1", name |-> "Renamed", model_type |-> "text2text-generation"],
      [model_id |-> "m1_x", name |-> "Model X", model_type |-> "fill-mask",
       description |-> "masked"] }

\* the descriptors the service is exercised with: one per identifier
ServiceModelInfos == {m \in ModelInfos : m.name # "Renamed"}

IncompleteModelInfos ==
    { [name |-> "Model One", model_type |-> "text-generation"],
      [model_id |-> "m1_x", model_type |-> "fill-mask"],
      [model_id |-> "m1", name |-> "Model One"] }

Updates ==
    { [model_id |-> "m9", added_date |-> isoformat(0), usage_count |-> 7,
       description |-> "updated", tags |-> "demo"] }

\* an update payload that replaces the stored generation parameters
ParameterUpdates == { [parameters |-> [max_new_tokens |-> 20, top_k |-> 5]] }

----------------------------------------------------------------------------
(* Actions of the remote Metadata Store: one per call of the manager.      *)

Tick ==
    /\ clock < MaxClock
    /\ clock' = clock + 1
    /\ UNCHANGED <<env_vars, store_vars, service_vars, local_vars, llm_vars, last, threads>>

AddHfModel(model_info) ==
    \E r \in {add_hf_model(hf_models_json_file, model_info, isoformat(clock), disk_writable)},
       id \in {Get(model_info, "model_id", "")} :
        /\ hf_models_json_file' = r.file
        /\ last' = [op |-> "add_hf_model", id |-> id, ok |-> r.raised = "", msg |-> r.raised]
        /\ IF r.raised = ""
           THEN /\ usage_calls' = [usage_calls EXCEPT ![id] = 0]
                /\ first_use' = [first_use EXCEPT ![id] = 0]
           ELSE UNCHANGED <<usage_calls, first_use>>
        /\ UNCHANGED <<clock, env_vars, service_vars, local_vars, llm_vars, threads>>

RemoveHfModel(model_id) ==
    \E r \in {remove_hf_model(hf_models_json_file, model_id, isoformat(clock), disk_writable)} :
        /\ hf_models_json_file' = r.file
        /\ last' = [op |-> "remove_hf_model", id |-> model_id, ok |-> r.raised = "",
                    msg |-> r.raised]
        /\ IF r.raised = ""
           THEN /\ usage_calls' = [usage_calls EXCEPT ![model_id] = 0]
                /\ first_use' = [first_use EXCEPT ![model_id] = 0]
           ELSE UNCHANGED <<usage_calls, first_use>>
        /\ UNCHANGED <<clock, env_vars, service_vars, local_vars, llm_vars, threads>>

UpdateModelUsage(model_id) ==
    \E r \in {update_model_usage(hf_models_json_file, model_id, isoformat(clock), disk_writable)},
       before \in {get_hf_model(hf_models_json_file, model_id)} :
        /\ before # None => Get(before, "usage_count", 0) < MaxUsage
        /\ usage_calls[model_id] < MaxUsage
        /\ hf_models_json_file' = r.file
        /\ last' = [op |-> "update_model_usage", id |-> model_id, ok |-> r.ret, msg |-> ""]
        /\ IF r.ret
           THEN /\ usage_calls' = [usage_calls EXCEPT ![model_id] = @ + 1]
                /\ first_use' = [first_use EXCEPT ![model_id] = IF @ = 0 THEN clock ELSE @]
           ELSE UNCHANGED <<usage_calls, first_use>>
        /\ UNCHANGED <<clock, env_vars, service_vars, local_vars, llm_vars, threads>>

GetStatistics ==
    /\ last' = [op |-> "get_statistics", id |-> "", ok |-> TRUE, msg |-> "",
                result |-> get_statistics(hf_models_json_file)]
    /\ UNCHANGED <<clock, env_vars, store_vars, service_vars, local_vars, llm_vars, threads>>

\* the environment: from now on open(..., 'w') of the JSON file raises, or succeeds
\* again
DiskFault ==
    /\ disk_writable' = ~disk_writable
    /\ UNCHANGED <<clock, cuda_available, store_vars, service_vars, local_vars, llm_vars, last, threads>>

UpdateModelInfo(model_id, updates) ==
    \E r \in {update_model_info(hf_models_json_file, model_id, updates, isoformat(clock),
                                disk_writable)} :
        /\ hf_models_json_file' = r.file
        /\ last' = [op |-> "update_model_info", id |-> model_id, ok |-> r.raised = "",
                    msg |-> r.raised]
        /\ UNCHANGED <<clock, env_vars, usage_calls, first_use, service_vars, local_vars, llm_vars, threads>>

----------------------------------------------------------------------------
(* Remote family: Load Cache and Generation Dispatcher, HuggingFaceService. *)

\* the transformers import succeeded: without it every call of the service returns
\* "not available" before it reads or writes any state
TRANSFORMERS_AVAILABLE == TRUE

_get_device(cuda) == IF cuda THEN "cuda" ELSE "cpu"

causal_types == {"text-generation", "conversational"}
seq2seq_types == {"text2text-generation", "summarization", "translation"}

\* an acquisition that falls back to the other class for every type
acquire_weights_falling_back(model_type, rt) ==
    IF model_type \in seq2seq_types
    THEN IF rt.seq2seq_ok
         THEN [tried |-> <<"AutoModelForSeq2SeqLM">>, class |-> "AutoModelForSeq2SeqLM"]
         ELSE [tried |-> <<"AutoModelForSeq2SeqLM", "AutoModelForCausalLM">>,
               class |-> IF rt.causal_ok THEN "AutoModelForCausalLM" ELSE ""]
    ELSE IF rt.causal_ok
    THEN [tried |-> <<"AutoModelForCausalLM">>, class |-> "AutoModelForCausalLM"]
    ELSE [tried |-> <<"AutoModelForCausalLM", "AutoModelForSeq2SeqLM">>,
          class |-> IF rt.seq2seq_ok THEN "AutoModelForSeq2SeqLM" ELSE ""]

\* The weights acquisition chosen by the declared type: the model classes whose
\* from_pretrained is called, in order, and the class that gave the model ("" when
\* the acquisition raised).  rt tells which calls of the runtime succeed.
acquire_weights(model_type, rt) ==
    IF model_type \in causal_types
    THEN [tried |-> <<"AutoModelForCausalLM">>,
          class |-> IF rt.causal_ok THEN "AutoModelForCausalLM" ELSE ""]
    ELSE IF model_type \in seq2seq_types
    THEN [tried |-> <<"AutoModelForSeq2SeqLM">>,
          class |-> IF rt.seq2seq_ok THEN "AutoModelForSeq2SeqLM" ELSE ""]
    ELSE IF rt.causal_ok
    THEN [tried |-> <<"AutoModelForCausalLM">>, class |-> "AutoModelForCausalLM"]
    ELSE [tried |-> <<"AutoModelForCausalLM", "AutoModelForSeq2SeqLM">>,
          class |-> IF rt.seq2seq_ok THEN "AutoModelForSeq2SeqLM" ELSE ""]

\* the entry load_model stores; the objects of one load sequence are told apart
\* from those of another by the number of the sequence
cache_entry(model_id, class, load, model_info, now, device) ==
    [model      |-> [class |-> class, of |-> model_id, load |-> load],
     tokenizer  |-> [of |-> model_id, load |-> load],
     model_info |-> model_info,
     loaded_at  |-> now,
     device     |-> device]

\* a cache check that does not look at force_reload
use_cache_always(cache, model_id, force_reload) ==
    model_id \in DOMAIN cache

\* whether load_model answers from the cache
use_cache(cache, model_id, force_reload) ==
    model_id \in DOMAIN cache /\ ~force_reload

\* what a service call did: the cache and the count of load sequences it leaves, the
\* from_pretrained calls it made, and the result dict it returns
ServiceResult(cache, loads, called, success, msg) ==
    [cache |-> cache, loads |-> loads, called |-> called, success |-> success, msg |-> msg]

\* an except block that keeps what was acquired before the error
load_failed_partial(cache, model_id, loads, called, e) ==
    ServiceResult(Merge(cache, [k \in {model_id} |->
                                  [model      |-> None,
                                   tokenizer  |-> [of |-> model_id, load |-> loads[model_id]],
                                   model_info |-> None,
                                   loaded_at  |-> None,
                                   device     |-> ""]]),
                  loads, called, FALSE, "Failed to load model: " \o e)

\* the except block of load_model: the error is returned, the cache is not touched
load_failed(cache, model_id, loads, called, e) ==
    ServiceResult(cache, loads, called, FALSE, "Failed to load model: " \o e)

load_model(cache, loads, file, model_id, force_reload, now, device, rt) ==
    LET model_info == get_hf_model(file, model_id)
        started == [loads EXCEPT ![model_id] = @ + 1]
        w == acquire_weights(Get(model_info, "model_type", "text-generation"), rt)
    IN  IF ~TRANSFORMERS_AVAILABLE
        THEN ServiceResult(cache, loads, <<>>, FALSE, "Transformers library not available")
        ELSE IF model_info = None
        THEN ServiceResult(cache, loads, <<>>, FALSE,
                           "Model '" \o model_id \o "' not found in registry. Please add it first.")
        ELSE IF use_cache(cache, model_id, force_reload)
        THEN ServiceResult(cache, loads, <<>>, TRUE,
                           "Model '" \o model_id \o "' loaded from cache")
        ELSE IF ~rt.tokenizer_ok
        THEN load_failed(cache, model_id, started, <<"AutoTokenizer">>, "tokenizer")
        ELSE IF w.class = ""
        THEN load_failed(cache, model_id, started, <<"AutoTokenizer">> \o w.tried, "weights")
        ELSE ServiceResult(
                 Merge(cache, [k \in {model_id} |->
                                  cache_entry(model_id, w.class, started[model_id],
                                              model_info, now, device)]),
                 started, <<"AutoTokenizer">> \o w.tried, TRUE,
                 "Model '" \o model_id \o "' loaded successfully")

runtime_defaults ==
    [max_new_tokens |-> 100, temperature |-> "0.7", do_sample |-> TRUE,
     top_p |-> "0.9", top_k |-> 50, repetition_penalty |-> "1.1"]

\* a merge in which the stored parameters override the request
effective_params_stored_last(default_params, generation_kwargs) ==
    Merge(Merge(runtime_defaults, generation_kwargs), default_params)

\* {defaults, **default_params, **generation_kwargs}
effective_params(default_params, generation_kwargs) ==
    Merge(Merge(runtime_defaults, default_params), generation_kwargs)

\* a generation that takes the stored parameters from the descriptor of the store
generate_response_current(cache, loads, file, model_id, generation_kwargs, now, device, rt, write_ok) ==
    LET loaded == IF model_id \notin DOMAIN cache
                  THEN load_model(cache, loads, file, model_id, FALSE, now, device, rt)
                  ELSE ServiceResult(cache, loads, <<>>, TRUE, "")
        model_info == get_hf_model(file, model_id)
        params == effective_params(IF model_info = None THEN EmptyDict
                                   ELSE Get(model_info, "parameters", EmptyDict),
                                   generation_kwargs)
    IN  IF ~TRANSFORMERS_AVAILABLE
        THEN [res |-> ServiceResult(cache, loads, <<>>, FALSE, "Transformers library not available"),
              file |-> file, parameters |-> None]
        ELSE IF ~loaded.success
        THEN [res |-> loaded, file |-> file, parameters |-> None]
        ELSE IF ~rt.generate_ok
        THEN [res |-> [loaded EXCEPT !.success = FALSE, !.msg = "generate"],
              file |-> file, parameters |-> None]
        ELSE [res |-> [loaded EXCEPT !.msg = ""],
              file |-> update_model_usage(file, model_id, now, write_ok).file,
              parameters |-> params]

\* generate_response: the service result, with the file update_model_usage leaves
\* and the effective parameters of a successful generation
generate_response(cache, loads, file, model_id, generation_kwargs, now, device, rt, write_ok) ==
    LET loaded == IF model_id \notin DOMAIN cache
                  THEN load_model(cache, loads, file, model_id, FALSE, now, device, rt)
                  ELSE ServiceResult(cache, loads, <<>>, TRUE, "")
        cached_model == loaded.cache[model_id]
        params == effective_params(Get(cached_model.model_info, "parameters", EmptyDict),
                                   generation_kwargs)
    IN  IF ~TRANSFORMERS_AVAILABLE
        THEN [res |-> ServiceResult(cache, loads, <<>>, FALSE, "Transformers library not available"),
              file |-> file, parameters |-> None]
        ELSE IF ~loaded.success
        THEN [res |-> loaded, file |-> file, parameters |-> None]
        ELSE IF ~rt.generate_ok
        THEN [res |-> [loaded EXCEPT !.success = FALSE, !.msg = "generate"],
              file |-> file, parameters |-> None]
        ELSE [res |-> [loaded EXCEPT !.msg = ""],
              file |-> update_model_usage(file, model_id, now, write_ok).file,
              parameters |-> params]

\* k.startswith(prefix)
startswith(s, prefix) ==
    Len(s) >= Len(prefix) /\ SubSeq(s, 1, Len(prefix)) = prefix

\* f"{model_id}_{task}"
pipeline_key(model_id, task) == model_id \o "_" \o task

\* the object pipeline(task, model=model_id, device=...) builds
new_pipeline(model_id, task, device) ==
    [task |-> task, model |-> model_id, device |-> IF device = "cuda" THEN 0 ELSE -1]

\* what a pipeline call did: the two caches and the JSON file it leaves, and the
\* result dict it returns
PipelineResult(cache, pcache, file, success, error) ==
    [cache |-> cache, pcache |-> pcache, file |-> file, success |-> success, error |-> error]

\* a pipeline request that also puts the model of the pipeline into the Load Cache
generate_with_pipeline_loading(cache, pcache, file, model_id, task, now, device, rt, write_ok) ==
    LET model_info == get_hf_model(file, model_id)
        key == pipeline_key(model_id, task)
        created == Merge(pcache, [k \in {key} |-> new_pipeline(model_id, task, device)])
    IN  IF model_info = None
        THEN PipelineResult(cache, pcache, file, FALSE,
                            "Model '" \o model_id \o "' not found in registry")
        ELSE IF ~rt.pipeline_ok \/ ~rt.pipe_call_ok
        THEN PipelineResult(cache, pcache, file, FALSE, "pipeline")
        ELSE PipelineResult(Merge(cache, [k \in {model_id} |->
                                           cache_entry(model_id, "pipeline", 0, model_info,
                                                       now, device)]),
                            created, update_model_usage(file, model_id, now, write_ok).file,
                            TRUE, "")

\* generate_with_pipeline: it reads and writes self._pipeline_cache and has no
\* statement on self._model_cache
generate_with_pipeline(cache, pcache, file, model_id, task, now, device, rt, write_ok) ==
    LET model_info == get_hf_model(file, model_id)
        key == pipeline_key(model_id, task)
        created == IF key \notin DOMAIN pcache
                   THEN Merge(pcache, [k \in {key} |-> new_pipeline(model_id, task, device)])
                   ELSE pcache
    IN  IF ~TRANSFORMERS_AVAILABLE
        THEN PipelineResult(cache, pcache, file, FALSE, "Transformers library not available")
        ELSE IF model_info = None
        THEN PipelineResult(cache, pcache, file, FALSE,
                            "Model '" \o model_id \o "' not found in registry")
        ELSE IF key \notin DOMAIN pcache /\ ~rt.pipeline_ok
        THEN PipelineResult(cache, pcache, file, FALSE, "pipeline")
        ELSE IF ~rt.pipe_call_ok
        THEN PipelineResult(cache, created, file, FALSE, "pipe")
        ELSE PipelineResult(cache, created,
                            update_model_usage(file, model_id, now, write_ok).file, TRUE, "")

\* what clear_cache did: both caches as it leaves them, and the result dict
ClearResult(cache, pcache, success, message) ==
    [cache |-> cache, pcache |-> pcache, success |-> success, message |-> message]

\* an evict of one identifier that leaves the Pipeline Cache alone
clear_cache_models_only(cache, pcache, model_id) ==
    IF model_id # ""
    THEN IF model_id \in DOMAIN cache
         THEN ClearResult([k \in (DOMAIN cache) \ {model_id} |-> cache[k]], pcache,
                          TRUE, "Cache cleared for " \o model_id)
         ELSE ClearResult(cache, pcache, FALSE, "Model " \o model_id \o " not in cache")
    ELSE ClearResult(EmptyDict, pcache, TRUE, "All caches cleared")

\* an evict that reports success and removes the pipelines also when the identifier
\* has no Load Cache entry
clear_cache_unconditional(cache, pcache, model_id) ==
    IF model_id # ""
    THEN ClearResult([k \in (DOMAIN cache) \ {model_id} |-> cache[k]],
                     [k \in {x \in DOMAIN pcache : ~startswith(x, model_id)} |-> pcache[k]],
                     TRUE, "Cache cleared for " \o model_id)
    ELSE ClearResult(EmptyDict, EmptyDict, TRUE, "All caches cleared")

\* clear_cache(model_id); the empty string stands for every falsy model_id, that is
\* for the request without a model_id argument (None) and the one with an empty one
clear_cache(cache, pcache, model_id) ==
    IF model_id # ""
    THEN IF model_id \in DOMAIN cache
         THEN ClearResult([k \in (DOMAIN cache) \ {model_id} |-> cache[k]],
                          [k \in {x \in DOMAIN pcache : ~startswith(x, model_id)} |-> pcache[k]],
                          TRUE, "Cache cleared for " \o model_id)
         ELSE ClearResult(cache, pcache, FALSE, "Model " \o model_id \o " not in cache")
    ELSE ClearResult(EmptyDict, EmptyDict, TRUE, "All caches cleared")

\* list(self._model_cache.keys()), without the order of insertion
get_cached_models(cache) == DOMAIN cache

\* get_cache_info without the cache directories of the environment; the list of
\* pipeline keys without the order of insertion
get_cache_info(cache, pcache) ==
    [cached_models |-> [model_id \in DOMAIN cache |->
                           [loaded_at |-> Get(cache[model_id], "loaded_at", None),
                            device |-> Get(cache[model_id], "device", None),
                            model_type |-> Get(Get(cache[model_id], "model_info", EmptyDict),
                                               "model_type", None)]],
     cached_pipelines |-> DOMAIN pcache,
     total_cached |-> Cardinality(DOMAIN cache)]

----------------------------------------------------------------------------
(* The requests the service is driven with, and what the runtime does.     *)

AllOk ==
    [tokenizer_ok |-> TRUE, causal_ok |-> TRUE, seq2seq_ok |-> TRUE, generate_ok |-> TRUE,
     pipeline_ok |-> TRUE, pipe_call_ok |-> TRUE]

\* which calls of the runtime raise
RuntimeOutcomes ==
    { AllOk,
      [AllOk EXCEPT !.tokenizer_ok = FALSE],
      [AllOk EXCEPT !.causal_ok = FALSE],
      [AllOk EXCEPT !.seq2seq_ok = FALSE],
      [AllOk EXCEPT !.causal_ok = FALSE, !.seq2seq_ok = FALSE],
      [AllOk EXCEPT !.generate_ok = FALSE] }

\* which calls of the runtime raise in a pipeline request
PipelineOutcomes ==
    { AllOk,
      [AllOk EXCEPT !.pipeline_ok = FALSE],
      [AllOk EXCEPT !.pipe_call_ok = FALSE] }

\* the tasks of the pipeline requests; "m1" with "x_t" and "m1_x" with "t" give the
\* same pipeline key
Tasks == {"t", "x_t"}

\* the model_id arguments of the cache clear requests; "" clears all
ClearIds == ModelIds \cup {""}

GenerationKwargs ==
    { EmptyDict,
      [max_new_tokens |-> 10, seed |-> 7] }

----------------------------------------------------------------------------
(* Actions of the service: one per call.                                   *)

LoadModel(model_id, force_reload, rt) ==
    \E r \in {load_model(_model_cache, load_sequences, hf_models_json_file, model_id,
                         force_reload, isoformat(clock), _get_device(cuda_available), rt)} :
        /\ r.loads # load_sequences => Total(load_sequences) < MaxLoads
        /\ _model_cache' = r.cache
        /\ load_sequences' = r.loads
        /\ last' = [op |-> "load_model", id |-> model_id, ok |-> r.success, msg |-> r.msg,
                    called |-> r.called, force_reload |-> force_reload]
        /\ UNCHANGED <<clock, env_vars, store_vars, _pipeline_cache, local_vars, llm_vars, threads>>

GenerateResponse(model_id, generation_kwargs, rt) ==
    \E g \in {generate_response(_model_cache, load_sequences, hf_models_json_file, model_id,
                                generation_kwargs, isoformat(clock),
                                _get_device(cuda_available), rt, disk_writable)},
       before \in {get_hf_model(hf_models_json_file, model_id)} :
      LET r == g.res
          used == r.success /\ before # None
      IN
        /\ r.loads # load_sequences => Total(load_sequences) < MaxLoads
        /\ used => Total(usage_calls) < MaxGenerated
        /\ _model_cache' = r.cache
        /\ load_sequences' = r.loads
        /\ hf_models_json_file' = g.file
        /\ last' = [op |-> "generate_response", id |-> model_id, ok |-> r.success,
                    msg |-> r.msg, called |-> r.called,
                    generation_kwargs |-> generation_kwargs, parameters |-> g.parameters]
        /\ IF used
           THEN /\ usage_calls' = [usage_calls EXCEPT ![model_id] = @ + 1]
                /\ first_use' = [first_use EXCEPT ![model_id] = IF @ = 0 THEN clock ELSE @]
           ELSE UNCHANGED <<usage_calls, first_use>>
        /\ UNCHANGED <<clock, env_vars, _pipeline_cache, local_vars, llm_vars, threads>>

GenerateWithPipeline(model_id, task, rt) ==
    \E r \in {generate_with_pipeline(_model_cache, _pipeline_cache, hf_models_json_file,
                                     model_id, task, isoformat(clock),
                                     _get_device(cuda_available), rt, disk_writable)} :
        /\ r.success => Total(usage_calls) < MaxGenerated
        /\ _model_cache' = r.cache
        /\ _pipeline_cache' = r.pcache
        /\ hf_models_json_file' = r.file
        /\ last' = [op |-> "generate_with_pipeline", id |-> model_id, ok |-> r.success,
                    msg |-> r.error, task |-> task]
        /\ IF r.success
           THEN /\ usage_calls' = [usage_calls EXCEPT ![model_id] = @ + 1]
                /\ first_use' = [first_use EXCEPT ![model_id] = IF @ = 0 THEN clock ELSE @]
           ELSE UNCHANGED <<usage_calls, first_use>>
        /\ UNCHANGED <<clock, env_vars, load_sequences, local_vars, llm_vars, threads>>

ClearCache(model_id) ==
    \E r \in {clear_cache(_model_cache, _pipeline_cache, model_id)} :
        /\ _model_cache' = r.cache
        /\ _pipeline_cache' = r.pcache
        /\ last' = [op |-> "clear_cache", id |-> model_id, ok |-> r.success, msg |-> r.message]
        /\ UNCHANGED <<clock, env_vars, store_vars, load_sequences, local_vars, llm_vars, threads>>

GetCachedModels ==
    /\ last' = [op |-> "get_cached_models", id |-> "", ok |-> TRUE, msg |-> "",
                result |-> get_cached_models(_model_cache)]
    /\ UNCHANGED <<clock, env_vars, store_vars, service_vars, local_vars, llm_vars, threads>>

GetCacheInfo ==
    /\ last' = [op |-> "get_cache_info", id |-> "", ok |-> TRUE, msg |-> "",
                result |-> get_cache_info(_model_cache, _pipeline_cache)]
    /\ UNCHANGED <<clock, env_vars, store_vars, service_vars, local_vars, llm_vars, threads>>

----------------------------------------------------------------------------
(* Local family: str methods used on file names.                           *)

\* c in s, for a one-character string c
char_in(c, s) == \E i \in 1..Len(s) : SubSeq(s, i, i) = c

\* s.endswith(suffix)
endswith(s, suffix) ==
    Len(s) >= Len(suffix) /\ SubSeq(s, Len(s) - Len(suffix) + 1, Len(s)) = suffix

\* s.replace(old, new), old not empty
RECURSIVE replace(_, _, _)
replace(s, old, new) ==
    IF Len(s) < Len(old) THEN s
    ELSE IF SubSeq(s, 1, Len(old)) = old
    THEN new \o replace(SubSeq(s, Len(old) + 1, Len(s)), old, new)
    ELSE SubSeq(s, 1, 1) \o replace(SubSeq(s, 2, Len(s)), old, new)

\* s.rfind(c) + 1: the position of the last c in s, 0 when there is none
rfind(s, c) ==
    LET found == {i \in 1..Len(s) : SubSeq(s, i, i) = c}
    IN  IF found = {} THEN 0 ELSE CHOOSE i \in found : \A j \in found : j <= i

ascii_uppercase == "ABCDEFGHIJKLMNOPQRSTUVWXYZ"
ascii_lowercase == "abcdefghijklmnopqrstuvwxyz"
digits == "0123456789"

\* s.lower()
RECURSIVE lower(_)
lower(s) ==
    IF s = "" THEN ""
    ELSE LET c == SubSeq(s, 1, 1)
             i == rfind(ascii_uppercase, c)
         IN  (IF i = 0 THEN c ELSE SubSeq(ascii_lowercase, i, i)) \o lower(SubSeq(s, 2, Len(s)))

\* s.lstrip(chars) and s.rstrip(chars)
RECURSIVE lstrip(_, _)
lstrip(s, chars) ==
    IF s # "" /\ char_in(SubSeq(s, 1, 1), chars)
    THEN lstrip(SubSeq(s, 2, Len(s)), chars)
    ELSE s

RECURSIVE rstrip(_, _)
rstrip(s, chars) ==
    IF s # "" /\ char_in(SubSeq(s, Len(s), Len(s)), chars)
    THEN rstrip(SubSeq(s, 1, Len(s) - 1), chars)
    ELSE s

\* s with every run of blanks replaced by one "_"
RECURSIVE collapse_blanks(_)
collapse_blanks(s) ==
    IF s = "" THEN ""
    ELSE IF SubSeq(s, 1, 1) = " "
    THEN "_" \o collapse_blanks(lstrip(s, " "))
    ELSE SubSeq(s, 1, 1) \o collapse_blanks(SubSeq(s, 2, Len(s)))

\* "_".join(s.split()) for an s whose only whitespace is the blank
join_split(s) == collapse_blanks(rstrip(lstrip(s, " "), " "))

\* re.sub("[^A-Za-z0-9_.-]", "", s)
RECURSIVE ascii_strip(_)
ascii_strip(s) ==
    IF s = "" THEN ""
    ELSE LET c == SubSeq(s, 1, 1)
         IN  (IF char_in(c, ascii_uppercase \o ascii_lowercase \o digits \o "_.-")
              THEN c ELSE "")
             \o ascii_strip(SubSeq(s, 2, Len(s)))

\* werkzeug.utils.secure_filename on a POSIX host, for ASCII names
secure_filename(filename) ==
    LET stripped == ascii_strip(join_split(replace(filename, "/", " ")))
    IN  rstrip(lstrip(stripped, "._"), "._")

----------------------------------------------------------------------------
(* Local family: the upload folder and models/model_manager.py.            *)

\* The upload folder is the sequence of its directory entries [name, size, mtime]
\* in the order os.listdir returns them.  A path is the name of the file in the
\* folder.

ALLOWED_EXTENSIONS == {"gguf"}

\* os.path.exists(file_path)
path_exists(folder, file_path) == \E i \in DOMAIN folder : folder[i].name = file_path

entry_of(folder, file_path) ==
    folder[FirstIndex(folder, LAMBDA e : e.name = file_path)]

\* the folder after a file of that size is written: a new entry at position pos, or
\* the old entry with the new size and modification time
write_file(folder, file_path, size, now, pos) ==
    LET entry == [name |-> file_path, size |-> size, mtime |-> now]
        i == FirstIndex(folder, LAMBDA e : e.name = file_path)
    IN  IF i # 0
        THEN [folder EXCEPT ![i] = entry]
        ELSE SubSeq(folder, 1, pos - 1) \o <<entry>> \o SubSeq(folder, pos, Len(folder))

\* os.remove(file_path)
remove_file(folder, file_path) == SelectSeq(folder, LAMBDA e : e.name # file_path)

load_models_list(file) ==
    IF file = NoFile THEN [models |-> <<>>] ELSE file[1]

save_models_list(file, models_data, write_ok) ==
    IF write_ok THEN <<models_data>> ELSE file

\* 1024 * 1024
MiB == 1048576

\* round(file_size / MiB, 2), as a number of hundredths; no integer size is half way
\* between two hundredths of a MiB
size_mb(file_size) == (file_size * 200 + MiB) \div (2 * MiB)

get_file_info(folder, file_path) ==
    IF ~path_exists(folder, file_path)
    THEN EmptyDict
    ELSE [size          |-> entry_of(folder, file_path).size,
          size_mb       |-> size_mb(entry_of(folder, file_path).size),
          modified_date |-> isoformat(entry_of(folder, file_path).mtime)]

scan_models_folder(folder) ==
    LET gguf == SelectSeq(folder, LAMBDA e : endswith(e.name, ".gguf"))
    IN  [i \in DOMAIN gguf |->
            Merge([filename |-> gguf[i].name, name |-> replace(gguf[i].name, ".gguf", "")],
                  get_file_info(folder, gguf[i].name))]

\* {model['filename']: model for model in models}[filename]: the last one listed
current_model(models, filename) ==
    LET listed == {i \in DOMAIN models : models[i]["filename"] = filename}
    IN  IF listed = {} THEN None
        ELSE models[CHOOSE i \in listed : \A j \in listed : j <= i]

\* a reconciliation that keeps the descriptors of the files it does not find
update_models_list_keeping(file, folder, now, write_ok) ==
    LET models_data == load_models_list(file)
        scanned_models == scan_models_folder(folder)
        updated_models ==
            [i \in DOMAIN scanned_models |->
                Merge(scanned_models[i],
                      [upload_date |-> scanned_models[i]["modified_date"]])]
        kept == SelectSeq(Get(models_data, "models", <<>>),
                          LAMBDA m : ~path_exists(folder, m["filename"]))
        saved == [models |-> updated_models \o kept, last_updated |-> now,
                  count |-> Len(updated_models) + Len(kept)]
    IN  Returned(save_models_list(file, saved, write_ok), saved)

\* a reconciliation that appends what it scans to the descriptors listed before
update_models_list_appending(file, folder, now, write_ok) ==
    LET models_data == load_models_list(file)
        scanned_models == scan_models_folder(folder)
        updated_models ==
            Get(models_data, "models", <<>>)
            \o [i \in DOMAIN scanned_models |->
                   Merge(scanned_models[i],
                         [upload_date |-> scanned_models[i]["modified_date"]])]
        saved == [models |-> updated_models, last_updated |-> now,
                  count |-> Len(updated_models)]
    IN  Returned(save_models_list(file, saved, write_ok), saved)

update_models_list(file, folder, now, write_ok) ==
    LET models_data == load_models_list(file)
        scanned_models == scan_models_folder(folder)
        updated_models ==
            [i \in DOMAIN scanned_models |->
                LET model_info == scanned_models[i]
                    existing_model == current_model(Get(models_data, "models", <<>>),
                                                    model_info["filename"])
                IN  Merge(model_info,
                          [upload_date |->
                              IF existing_model # None
                              THEN Get(existing_model, "upload_date",
                                       model_info["modified_date"])
                              ELSE model_info["modified_date"]])]
        saved == [models |-> updated_models, last_updated |-> now,
                  count |-> Len(updated_models)]
    IN  Returned(save_models_list(file, saved, write_ok), saved)

add_model(file, folder, filename, file_path, current_time, write_ok) ==
    LET models_data == load_models_list(file)
        new_local_model == Merge([filename    |-> filename,
                                  name        |-> replace(filename, ".gguf", ""),
                                  upload_date |-> current_time],
                                 get_file_info(folder, file_path))
        models == Append(Get(models_data, "models", <<>>), new_local_model)
        saved == Merge(models_data, [models |-> models, last_updated |-> current_time,
                                     count |-> Len(models)])
    IN  Returned(save_models_list(file, saved, write_ok), new_local_model)

\* a removal that rewrites the list before it deletes the file
remove_model_list_first(file, folder, filename, now, remove_ok, write_ok) ==
    LET models_data == load_models_list(file)
        models == SelectSeq(Get(models_data, "models", <<>>),
                            LAMBDA m : m["filename"] # filename)
        saved == Merge(models_data, [models |-> models, last_updated |-> now,
                                     count |-> Len(models)])
    IN  IF path_exists(folder, filename) /\ ~remove_ok
        THEN [file |-> save_models_list(file, saved, write_ok), folder |-> folder,
              raised |-> "OSError", ret |-> None]
        ELSE [file |-> save_models_list(file, saved, write_ok),
              folder |-> remove_file(folder, filename), raised |-> "", ret |-> saved]

\* remove_model: the file and the folder it leaves, and what it returns or raises
remove_model(file, folder, filename, now, remove_ok, write_ok) ==
    LET models_data == load_models_list(file)
        models == SelectSeq(Get(models_data, "models", <<>>),
                            LAMBDA m : m["filename"] # filename)
        saved == Merge(models_data, [models |-> models, last_updated |-> now,
                                     count |-> Len(models)])
    IN  IF path_exists(folder, filename) /\ ~remove_ok
        THEN [file |-> file, folder |-> folder, raised |-> "OSError", ret |-> None]
        ELSE [file |-> save_models_list(file, saved, write_ok),
              folder |-> remove_file(folder, filename), raised |-> "", ret |-> saved]

model_exists(folder, filename) == path_exists(folder, filename)

get_model_path(model_name) ==
    IF ~endswith(model_name, ".gguf") THEN model_name \o ".gguf" ELSE model_name

is_allowed_file(filename, allowed_extensions) ==
    /\ char_in(".", filename)
    /\ lower(SubSeq(filename, rfind(filename, ".") + 1, Len(filename))) \in allowed_extensions

\* the persisted descriptors of the local family, and their identifiers
local_models == Get(load_models_list(models_json_file), "models", <<>>)
local_count == Get(load_models_list(models_json_file), "count", 0)

----------------------------------------------------------------------------
(* Local family: the handlers of services/route_handlers.py.               *)

\* what a handler leaves and answers
Response(file, folder, status, error, filename) ==
    [file |-> file, folder |-> folder, status |-> status, error |-> error,
     filename |-> filename]

\* upload_model: files is request.files, size the length of the uploaded content,
\* pos the place a new directory entry takes
upload_model(file, folder, files, size, now, pos, write_ok) ==
    LET filename == secure_filename(files["file"])
        file_path == get_model_path(filename)
        saved_folder == write_file(folder, file_path, size, now, pos)
    IN  IF "file" \notin DOMAIN files
        THEN Response(file, folder, 400, "No file part in the request", "")
        ELSE IF files["file"] = ""
        THEN Response(file, folder, 400, "No file selected", "")
        ELSE IF ~is_allowed_file(files["file"], ALLOWED_EXTENSIONS)
        THEN Response(file, folder, 400, "Invalid file type", "")
        ELSE IF model_exists(folder, filename)
        THEN Response(file, folder, 409, "File already exists", filename)
        ELSE IF ~write_ok
        THEN Response(file, folder, 500, "Failed to save file", filename)
        ELSE Response(add_model(file, saved_folder, filename, file_path,
                                isoformat(now), write_ok).file,
                      saved_folder, 200, "", filename)

list_models(file, folder, now, write_ok) ==
    Response(update_models_list(file, folder, now, write_ok).file, folder, 200, "", "")

sync_models(file, folder, now, write_ok) ==
    Response(update_models_list(file, folder, now, write_ok).file, folder, 200, "", "")

delete_model(file, folder, model_name, now, remove_ok, write_ok) ==
    LET filename == IF ~endswith(model_name, ".gguf") THEN model_name \o ".gguf"
                    ELSE model_name
        removed == remove_model(file, folder, filename, now, remove_ok, write_ok)
    IN  IF ~model_exists(folder, filename)
        THEN Response(file, folder, 404, "Model not found", filename)
        ELSE IF removed.raised # ""
        THEN Response(removed.file, removed.folder, 500, "Failed to delete model", filename)
        ELSE Response(removed.file, removed.folder, 200, "", filename)

----------------------------------------------------------------------------
(* The requests the local family is driven with, and what happens to the   *)
(* files behind its back.                                                  *)

UploadRequests ==
    { EmptyDict,
      [file |-> ""],
      [file |-> "notes.txt"],
      [file |-> "a.gguf"],
      [file |-> "../a.gguf"],
      [file |-> "b.GGUF"] }

DeleteNames == {"a", "a.gguf", "b.GGUF"}

\* the files that are copied into the folder by hand
ExternalNames == {"a.gguf", "notes.txt"}

\* the length in bytes of an upload, and of a file copied by hand
FileSizes == [upload |-> 3145728, external |-> 5243]

----------------------------------------------------------------------------
(* Actions of the local family: one per handler, and the changes of the    *)
(* folder that no handler makes.                                           *)

UploadModel(files) ==
    /\ Len(local_models) < MaxModels
    /\ \E pos \in 1..(Len(upload_folder) + 1) :
        \E r \in {upload_model(models_json_file, upload_folder, files, FileSizes.upload,
                               clock, pos, disk_writable)} :
          /\ models_json_file' = r.file
          /\ upload_folder' = r.folder
          /\ last' = [op |-> "upload_model", id |-> r.filename, ok |-> r.status = 200,
                      msg |-> r.error]
          /\ UNCHANGED <<clock, env_vars, store_vars, service_vars, llm_vars, threads>>

ListModels ==
    \E r \in {list_models(models_json_file, upload_folder, isoformat(clock), disk_writable)} :
        /\ models_json_file' = r.file
        /\ upload_folder' = r.folder
        /\ last' = [op |-> "list_models", id |-> "", ok |-> r.status = 200, msg |-> r.error]
        /\ UNCHANGED <<clock, env_vars, store_vars, service_vars, llm_vars, threads>>

SyncModels ==
    \E r \in {sync_models(models_json_file, upload_folder, isoformat(clock), disk_writable)} :
        /\ models_json_file' = r.file
        /\ upload_folder' = r.folder
        /\ last' = [op |-> "sync_models", id |-> "", ok |-> r.status = 200, msg |-> r.error]
        /\ UNCHANGED <<clock, env_vars, store_vars, service_vars, llm_vars, threads>>

\* remove_ok: whether os.remove succeeds
DeleteModel(model_name, remove_ok) ==
    \E r \in {delete_model(models_json_file, upload_folder, model_name, isoformat(clock),
                           remove_ok, disk_writable)} :
        /\ models_json_file' = r.file
        /\ upload_folder' = r.folder
        /\ last' = [op |-> "delete_model", id |-> r.filename, ok |-> r.status = 200,
                    msg |-> r.error]
        /\ UNCHANGED <<clock, env_vars, store_vars, service_vars, llm_vars, threads>>

\* a file is copied into the folder, or over a file of the folder
ExternalWrite(name) ==
    \E pos \in 1..(Len(upload_folder) + 1) :
        /\ upload_folder' = write_file(upload_folder, name, FileSizes.external, clock, pos)
        /\ UNCHANGED <<clock, env_vars, store_vars, service_vars, llm_vars, models_json_file, last, threads>>

\* a file of the folder is deleted
ExternalDelete(name) ==
    /\ path_exists(upload_folder, name)
    /\ upload_folder' = remove_file(upload_folder, name)
    /\ UNCHANGED <<clock, env_vars, store_vars, service_vars, llm_vars, models_json_file, last, threads>>

----------------------------------------------------------------------------
(* Local family: the instance cache of LLMService and its handlers.        *)

DEFAULT_N_GPU_LAYERS == 40
DEFAULT_N_BATCH == 512

\* the keys of llm_params in the order the handler writes them
llm_param_keys == <<"n_gpu_layers", "n_batch", "temperature">>

\* the bodies of the generation requests
GenerateData ==
    { EmptyDict,
      [model_name |-> "a"],
      [question |-> "q", model_name |-> "a"],
      [question |-> "q", model_name |-> "a.gguf"],
      [question |-> "q", model_name |-> "a", temperature |-> 1],
      [question |-> "q", model_name |-> "a", n_batch |-> 8],
      [question |-> "q", model_name |-> "notes.txt"] }

\* llm_params of the handler, after the None values are dropped
llm_params(data) ==
    [k \in {"n_gpu_layers", "n_batch"} \cup ({"temperature"} \cap DOMAIN data) |->
        IF k = "n_gpu_layers" THEN Get(data, k, DEFAULT_N_GPU_LAYERS)
        ELSE IF k = "n_batch" THEN Get(data, k, DEFAULT_N_BATCH)
        ELSE data[k]]

\* the items of str(d), in the order of keys
RECURSIVE str_items(_, _)
str_items(d, keys) ==
    IF keys = <<>> THEN ""
    ELSE LET k == Head(keys)
             rest == str_items(d, Tail(keys))
         IN  IF k \notin DOMAIN d THEN rest
             ELSE "'" \o k \o "': " \o ToString(d[k])
                  \o (IF rest = "" THEN "" ELSE ", " \o rest)

\* str(llm_kwargs)
str(llm_kwargs) == "{" \o str_items(llm_kwargs, llm_param_keys) \o "}"

\* hash of a str within one process: an integer for each of the strings hashed here,
\* different strings taken to different integers
hash ==
    LET hashed == {str(llm_params(data)) : data \in GenerateData}
    IN  CHOOSE h \in [hashed -> 1..Cardinality(hashed)] :
            \A a, b \in hashed : h[a] = h[b] => a = b

\* f"{model_name}_{hash(str(llm_kwargs))}"
cache_key(model_name, llm_kwargs) ==
    model_name \o "_" \o ToString(hash[str(llm_kwargs)])

\* the instance LlamaCpp(**params) of the call-th call of _create_llm
_create_llm(model_path, kwargs, call) ==
    [params |-> Merge(Merge([n_gpu_layers |-> DEFAULT_N_GPU_LAYERS,
                             n_batch      |-> DEFAULT_N_BATCH,
                             verbose      |-> TRUE],
                            kwargs),
                      [model_path |-> model_path]),
     call |-> call]

LlmResult(cache, calls, success, error, key, hit, llm) ==
    [cache |-> cache, calls |-> calls, success |-> success, error |-> error,
     cache_key |-> key, hit |-> hit, llm |-> llm]

\* a generation that caches what a failed _create_llm left
llm_generate_response_caching_failure(cache, calls, model_name, model_path, llm_kwargs, create_ok, invoke_ok) ==
    LET key == cache_key(model_name, llm_kwargs)
        hit == key \in DOMAIN cache
        created == (key :> (IF create_ok THEN _create_llm(model_path, llm_kwargs, calls + 1)
                            ELSE None)) @@ cache
    IN  IF ~hit /\ ~create_ok
        THEN LlmResult(created, calls + 1, FALSE, "create", key, FALSE, None)
        ELSE IF ~hit
        THEN LlmResult(created, calls + 1, invoke_ok, IF invoke_ok THEN "" ELSE "invoke",
                       key, FALSE, created[key])
        ELSE LlmResult(cache, calls, invoke_ok, IF invoke_ok THEN "" ELSE "invoke",
                       key, TRUE, cache[key])

\* LLMService.generate_response: create_ok, invoke_ok say whether _create_llm and
\* llm_chain.ainvoke return
llm_generate_response(cache, calls, model_name, model_path, llm_kwargs, create_ok, invoke_ok) ==
    LET key == cache_key(model_name, llm_kwargs)
        hit == key \in DOMAIN cache
        created == (key :> _create_llm(model_path, llm_kwargs, calls + 1)) @@ cache
    IN  IF ~hit /\ ~create_ok
        THEN LlmResult(cache, calls + 1, FALSE, "create", key, FALSE, None)
        ELSE IF ~hit
        THEN LlmResult(created, calls + 1, invoke_ok, IF invoke_ok THEN "" ELSE "invoke",
                       key, FALSE, created[key])
        ELSE LlmResult(cache, calls, invoke_ok, IF invoke_ok THEN "" ELSE "invoke",
                       key, TRUE, cache[key])

\* the handler of POST /generate: the status it answers and what the service leaves
handle_generate_response(cache, calls, folder, data, create_ok, invoke_ok) ==
    LET model_name == data["model_name"]
        refused(status, error) ==
            [status |-> status, res |-> LlmResult(cache, calls, FALSE, error, "", FALSE, None)]
        res == llm_generate_response(cache, calls, model_name, get_model_path(model_name),
                                     llm_params(data), create_ok, invoke_ok)
    IN  IF data = EmptyDict THEN refused(400, "Request body is required")
        ELSE IF "question" \notin DOMAIN data THEN refused(400, "Question is required")
        ELSE IF "model_name" \notin DOMAIN data THEN refused(400, "Model name is required")
        ELSE IF ~model_exists(folder, get_model_path(model_name))
        THEN refused(404, "Model not found")
        ELSE [status |-> IF res.success THEN 200 ELSE 500, res |-> res]

GenerateLocal(data, create_ok, invoke_ok) ==
    \E r \in {handle_generate_response(_llm_cache, create_calls, upload_folder, data,
                                        create_ok, invoke_ok)} :
        /\ r.res.calls # create_calls => create_calls < MaxCreated
        /\ _llm_cache' = r.res.cache
        /\ create_calls' = r.res.calls
        /\ last' = [op |-> "generate_response_local", id |-> Get(data, "model_name", ""),
                    ok |-> r.status = 200, msg |-> r.res.error, status |-> r.status,
                    cache_key |-> r.res.cache_key, hit |-> r.res.hit, llm |-> r.res.llm,
                    llm_params |-> IF r.status \in {200, 500} THEN llm_params(data) ELSE None]
        /\ UNCHANGED <<clock, env_vars, store_vars, service_vars, local_vars, threads>>

\* POST /cache/clear: self._llm_cache.clear()
ClearLlmCache ==
    /\ _llm_cache' = EmptyDict
    /\ last' = [op |-> "clear_cache_local", id |-> "", ok |-> TRUE,
                msg |-> "Cache cleared successfully"]
    /\ UNCHANGED <<clock, env_vars, store_vars, service_vars, local_vars, create_calls, threads>>

\* GET /cache/status: list(self._llm_cache.keys()) and its length
CacheStatus ==
    /\ last' = [op |-> "cache_status", id |-> "", ok |-> TRUE, msg |-> "",
                cached_models |-> DOMAIN _llm_cache,
                count |-> Cardinality(DOMAIN _llm_cache)]
    /\ UNCHANGED <<clock, env_vars, store_vars, service_vars, local_vars, llm_vars, threads>>

----------------------------------------------------------------------------
(* Requests served concurrently.  The server runs every request in a       *)
(* thread of its own and the service takes no lock, so the threads         *)
(* interleave between any two statements that read or write the caches or  *)
(* the JSON file.  A step below is one such statement together with the    *)
(* thread-local statements that follow it.                                 *)

Threads == {"t1", "t2"}

Idle ==
    [pc |-> "idle", op |-> "", model_id |-> "", model_info |-> None, tokenizer |-> None,
     model |-> None, cached_model |-> None, models_data |-> None, updates |-> None,
     success |-> FALSE]

\* thread t moves to pc with some of its locals assigned
Goto(t, pc, locals) ==
    threads' = [threads EXCEPT ![t] = Merge(Merge(@, locals), [pc |-> pc])]

\* a request POST /load arrives: load_model(model_id) without force_reload
BeginLoadModel(t, model_id) ==
    /\ threads[t].pc = "idle"
    /\ Goto(t, "get_hf_model", [op |-> "load_model", model_id |-> model_id])
    /\ UNCHANGED <<clock, env_vars, store_vars, service_vars, local_vars, llm_vars, last>>

\* a request POST /generate arrives: generate_response(model_id, prompt)
BeginGenerateResponse(t, model_id) ==
    /\ threads[t].pc = "idle"
    /\ Goto(t, "not_in_cache", [op |-> "generate_response", model_id |-> model_id])
    /\ UNCHANGED <<clock, env_vars, store_vars, service_vars, local_vars, llm_vars, last>>

\* generate_response: if model_id not in self._model_cache
CheckNotInCache(t) ==
    /\ threads[t].pc = "not_in_cache"
    /\ IF threads[t].model_id \notin DOMAIN _model_cache
       THEN Goto(t, "get_hf_model", EmptyDict)
       ELSE Goto(t, "cached_model", EmptyDict)
    /\ UNCHANGED <<clock, env_vars, store_vars, service_vars, local_vars, llm_vars, last>>

\* load_model: model_info = self.model_manager.get_hf_model(model_id)
GetModelInfo(t) ==
    /\ threads[t].pc = "get_hf_model"
    /\ \E model_info \in {get_hf_model(hf_models_json_file, threads[t].model_id)} :
          IF model_info = None
          THEN Goto(t, "done", [success |-> FALSE])
          ELSE Goto(t, "use_cache", [model_info |-> model_info])
    /\ UNCHANGED <<clock, env_vars, store_vars, service_vars, local_vars, llm_vars, last>>

\* load_model: if model_id in self._model_cache and not force_reload
CheckUseCache(t) ==
    /\ threads[t].pc = "use_cache"
    /\ IF use_cache(_model_cache, threads[t].model_id, FALSE)
       THEN IF threads[t].op = "load_model"
            THEN Goto(t, "done", [success |-> TRUE])
            ELSE Goto(t, "cached_model", EmptyDict)
       ELSE Goto(t, "tokenizer", EmptyDict)
    /\ UNCHANGED <<clock, env_vars, store_vars, service_vars, local_vars, llm_vars, last>>

\* load_model: tokenizer = AutoTokenizer.from_pretrained(model_id)
LoadTokenizer(t) ==
    /\ threads[t].pc = "tokenizer"
    /\ load_sequences' = [load_sequences EXCEPT ![threads[t].model_id] = @ + 1]
    /\ Goto(t, "model", [tokenizer |-> [of |-> threads[t].model_id,
                                         load |-> load_sequences'[threads[t].model_id]]])
    /\ UNCHANGED <<clock, env_vars, store_vars, _model_cache, _pipeline_cache, local_vars, llm_vars, last>>

\* load_model: model = AutoModelFor...from_pretrained(model_id)
LoadWeights(t) ==
    /\ threads[t].pc = "model"
    /\ Goto(t, "store",
            [model |-> [class |-> acquire_weights(Get(threads[t].model_info, "model_type",
                                                      "text-generation"), AllOk).class,
                        of    |-> threads[t].model_id,
                        load  |-> threads[t].tokenizer.load]])
    /\ UNCHANGED <<clock, env_vars, store_vars, service_vars, local_vars, llm_vars, last>>

\* load_model: self._model_cache[model_id] = {...}
StoreInCache(t) ==
    /\ threads[t].pc = "store"
    /\ _model_cache' =
          Merge(_model_cache,
                [k \in {threads[t].model_id} |->
                    cache_entry(threads[t].model_id, threads[t].model.class,
                                threads[t].model.load, threads[t].model_info,
                                isoformat(clock), _get_device(cuda_available))])
    /\ IF threads[t].op = "load_model"
       THEN Goto(t, "done", [success |-> TRUE])
       ELSE Goto(t, "cached_model", EmptyDict)
    /\ UNCHANGED <<clock, env_vars, store_vars, _pipeline_cache, load_sequences, local_vars, llm_vars, last>>

\* generate_response: cached_model = self._model_cache[model_id], and the generation
\* with the model and the tokenizer of that entry
ReadCachedModel(t) ==
    /\ threads[t].pc = "cached_model"
    /\ IF threads[t].model_id \in DOMAIN _model_cache
       THEN Goto(t, "load_hf_models_list",
                 [cached_model |-> _model_cache[threads[t].model_id]])
       ELSE Goto(t, "done", [success |-> FALSE])
    /\ UNCHANGED <<clock, env_vars, store_vars, service_vars, local_vars, llm_vars, last>>

\* update_model_usage: models_data = self.load_hf_models_list()
ReadModelsData(t) ==
    /\ threads[t].pc = "load_hf_models_list"
    /\ Goto(t, "save_hf_models_list",
            [models_data |-> load_hf_models_list(hf_models_json_file)])
    /\ UNCHANGED <<clock, env_vars, store_vars, service_vars, local_vars, llm_vars, last>>

\* update_model_usage: the update of the snapshot read and save_hf_models_list
SaveModelsData(t) ==
    /\ threads[t].pc = "save_hf_models_list"
    /\ threads[t].op \notin {"update_model_info", "add_hf_model"}
    /\ \E r \in {record_usage(hf_models_json_file, threads[t].models_data,
                                threads[t].model_id, isoformat(clock), disk_writable)} :
          /\ hf_models_json_file' = r.file
          /\ IF r.ret
             THEN /\ usage_calls' = [usage_calls EXCEPT ![threads[t].model_id] = @ + 1]
                  /\ first_use' = [first_use EXCEPT ![threads[t].model_id] =
                                      IF @ = 0 THEN clock ELSE @]
             ELSE UNCHANGED <<usage_calls, first_use>>
    /\ Goto(t, "done", [success |-> TRUE, models_data |-> None])
    /\ UNCHANGED <<clock, env_vars, service_vars, local_vars, llm_vars, last>>

\* a request PUT /models/<model_id> arrives: update_model_info(model_id, updates)
BeginUpdateModelInfo(t, model_id, updates) ==
    /\ threads[t].pc = "idle"
    /\ Goto(t, "load_hf_models_list",
            [op |-> "update_model_info", model_id |-> model_id, updates |-> updates])
    /\ UNCHANGED <<clock, env_vars, store_vars, service_vars, local_vars, llm_vars, last>>

\* update_model_info: the update of the snapshot read and save_hf_models_list
SaveModelInfo(t) ==
    /\ threads[t].pc = "save_hf_models_list"
    /\ threads[t].op = "update_model_info"
    /\ \E r \in {record_info(hf_models_json_file, threads[t].models_data, threads[t].model_id,
                              threads[t].updates, isoformat(clock), disk_writable)} :
          /\ hf_models_json_file' = r.file
          /\ Goto(t, "done", [success |-> r.raised = "", models_data |-> None])
    /\ UNCHANGED <<clock, env_vars, usage_calls, first_use, service_vars, local_vars, llm_vars, last>>

\* a request POST /models arrives: add_hf_model(model_info)
BeginAddHfModel(t, model_info) ==
    /\ threads[t].pc = "idle"
    /\ Goto(t, "load_hf_models_list",
            [op |-> "add_hf_model", model_id |-> model_info["model_id"],
             model_info |-> model_info])
    /\ UNCHANGED <<clock, env_vars, store_vars, service_vars, local_vars, llm_vars, last>>

\* add_hf_model: the checks and the append on the snapshot read, and save_hf_models_list
SaveNewModel(t) ==
    /\ threads[t].pc = "save_hf_models_list"
    /\ threads[t].op = "add_hf_model"
    /\ \E r \in {record_model(hf_models_json_file, threads[t].models_data,
                               threads[t].model_info, isoformat(clock), disk_writable)} :
          /\ hf_models_json_file' = r.file
          /\ Goto(t, "done", [success |-> r.raised = "", models_data |-> None])
    /\ UNCHANGED <<clock, env_vars, usage_calls, first_use, service_vars, local_vars, llm_vars, last>>

Init ==
    /\ clock = 1
    /\ disk_writable = TRUE
    /\ cuda_available = FALSE
    /\ hf_models_json_file = NoFile
    /\ _model_cache = EmptyDict
    /\ _pipeline_cache = EmptyDict
    /\ load_sequences = [id \in ModelIds |-> 0]
    /\ last = [op |-> "init", id |-> "", ok |-> TRUE, msg |-> ""]
    /\ usage_calls = [id \in ModelIds |-> 0]
    /\ first_use = [id \in ModelIds |-> 0]
    /\ upload_folder = <<>>
    /\ models_json_file = NoFile
    /\ _llm_cache = EmptyDict
    /\ create_calls = 0
    /\ threads = [t \in Threads |-> Idle]

StoreNext ==
    \/ Tick
    \/ \E model_info \in ModelInfos \cup IncompleteModelInfos : AddHfModel(model_info)
    \/ \E model_id \in ModelIds : RemoveHfModel(model_id)
    \/ \E model_id \in ModelIds : UpdateModelUsage(model_id)
    \/ \E model_id \in ModelIds, updates \in Updates : UpdateModelInfo(model_id, updates)

SpecStore == Init /\ [][StoreNext]_vars

\* the manager with its statistics, on descriptors of equal and of different types
StatsNext ==
    \/ \E model_info \in ServiceModelInfos
                         \cup {[model_id |-> "m1_x", name |-> "Model X",
                                 model_type |-> "text-generation"]} : AddHfModel(model_info)
    \/ \E model_id \in ModelIds : RemoveHfModel(model_id)
    \/ \E model_id \in ModelIds : UpdateModelUsage(model_id)
    \/ GetStatistics

SpecStats == Init /\ [][StatsNext]_vars

\* the manager on a disk whose writes can fail
FaultNext ==
    \/ DiskFault
    \/ \E model_info \in ServiceModelInfos : AddHfModel(model_info)
    \/ \E model_id \in ModelIds : RemoveHfModel(model_id)
    \/ \E model_id \in ModelIds : UpdateModelUsage(model_id)
    \/ \E model_id \in ModelIds, updates \in Updates : UpdateModelInfo(model_id, updates)

SpecFault == Init /\ [][FaultNext]_vars

ServiceNext ==
    \/ \E model_info \in ServiceModelInfos : AddHfModel(model_info)
    \/ \E model_id \in ModelIds : RemoveHfModel(model_id)
    \/ \E model_id \in ModelIds, force_reload \in BOOLEAN, rt \in RuntimeOutcomes :
          LoadModel(model_id, force_reload, rt)
    \/ \E model_id \in ModelIds, generation_kwargs \in GenerationKwargs, rt \in RuntimeOutcomes :
          GenerateResponse(model_id, generation_kwargs, rt)

Spec == Init /\ [][ServiceNext]_vars

LocalNext ==
    \/ \E files \in UploadRequests : UploadModel(files)
    \/ ListModels
    \/ SyncModels
    \/ \E model_name \in DeleteNames, remove_ok \in BOOLEAN : DeleteModel(model_name, remove_ok)
    \/ \E name \in ExternalNames : ExternalWrite(name)
    \/ \E name \in {upload_folder[i].name : i \in DOMAIN upload_folder} : ExternalDelete(name)

\* the service with both caches: every call of the service, on a runtime in which
\* only the pipeline calls fail
CacheNext ==
    \/ \E model_info \in ServiceModelInfos : AddHfModel(model_info)
    \/ \E model_id \in ModelIds : RemoveHfModel(model_id)
    \/ \E model_id \in ModelIds : LoadModel(model_id, FALSE, AllOk)
    \/ \E model_id \in ModelIds : GenerateResponse(model_id, EmptyDict, AllOk)
    \/ \E model_id \in ModelIds, task \in Tasks, rt \in PipelineOutcomes :
          GenerateWithPipeline(model_id, task, rt)
    \/ \E model_id \in ClearIds : ClearCache(model_id)
    \/ GetCachedModels
    \/ GetCacheInfo

SpecCache == Init /\ [][CacheNext]_vars

\* load requests on descriptors of a causal, a sequence-to-sequence and another type
LoadNext ==
    \/ \E model_info \in ModelInfos : AddHfModel(model_info)
    \/ \E model_id \in ModelIds : RemoveHfModel(model_id)
    \/ \E model_id \in ModelIds, force_reload \in BOOLEAN, rt \in RuntimeOutcomes :
          LoadModel(model_id, force_reload, rt)

SpecLoad == Init /\ [][LoadNext]_vars

\* descriptors whose parameters are updated between loads and direct generations
ParamsNext ==
    \/ \E model_info \in ServiceModelInfos : AddHfModel(model_info)
    \/ \E model_id \in ModelIds, updates \in ParameterUpdates : UpdateModelInfo(model_id, updates)
    \/ \E model_id \in ModelIds, force_reload \in BOOLEAN : LoadModel(model_id, force_reload, AllOk)
    \/ \E model_id \in ModelIds, generation_kwargs \in GenerationKwargs :
          GenerateResponse(model_id, generation_kwargs, AllOk)
    \/ \E model_id \in ClearIds : ClearCache(model_id)

SpecParams == Init /\ [][ParamsNext]_vars

SpecLocal == Init /\ [][LocalNext]_vars

\* the local family while time passes
LocalClockNext ==
    \/ Tick
    \/ \E files \in {[file |-> "a.gguf"], [file |-> "notes.txt"]} : UploadModel(files)
    \/ ListModels
    \/ SyncModels
    \/ \E model_name \in {"a"} : DeleteModel(model_name, TRUE)
    \/ \E name \in ExternalNames : ExternalWrite(name)
    \/ \E name \in {upload_folder[i].name : i \in DOMAIN upload_folder} : ExternalDelete(name)

SpecLocalClock == Init /\ [][LocalClockNext]_vars

\* both families at work: every mutating operation of either Metadata Store
FamiliesNext ==
    \/ \E model_info \in ServiceModelInfos : AddHfModel(model_info)
    \/ \E model_id \in ModelIds : RemoveHfModel(model_id)
    \/ \E model_id \in ModelIds : UpdateModelUsage(model_id)
    \/ \E model_id \in ModelIds, updates \in Updates : UpdateModelInfo(model_id, updates)
    \/ \E files \in {f \in UploadRequests : "file" \in DOMAIN f /\ endswith(lower(f["file"]), ".gguf")} :
          UploadModel(files)
    \/ ListModels
    \/ \E model_name \in DeleteNames : DeleteModel(model_name, TRUE)
    \/ \E name \in {upload_folder[i].name : i \in DOMAIN upload_folder} : ExternalDelete(name)

SpecFamilies == Init /\ [][FamiliesNext]_vars

\* two request threads, each serving one request, on a registry that is filled
ConcNext ==
    \/ \E model_info \in ServiceModelInfos : AddHfModel(model_info)
    \/ \E t \in Threads, model_id \in ModelIds : BeginLoadModel(t, model_id)
    \/ \E t \in Threads, model_id \in ModelIds : BeginGenerateResponse(t, model_id)
    \/ \E t \in Threads : CheckNotInCache(t)
    \/ \E t \in Threads : GetModelInfo(t)
    \/ \E t \in Threads : CheckUseCache(t)
    \/ \E t \in Threads : LoadTokenizer(t)
    \/ \E t \in Threads : LoadWeights(t)
    \/ \E t \in Threads : StoreInCache(t)
    \/ \E t \in Threads : ReadCachedModel(t)
    \/ \E t \in Threads : ReadModelsData(t)
    \/ \E t \in Threads : SaveModelsData(t)
    \/ \E t \in Threads, model_id \in ModelIds, updates \in Updates :
          BeginUpdateModelInfo(t, model_id, updates)
    \/ \E t \in Threads : SaveModelInfo(t)

SpecConc == Init /\ [][ConcNext]_vars

\* generation requests of the local family on a folder whose files come and go
LlmNext ==
    \/ \E name \in ExternalNames : ExternalWrite(name)
    \/ \E name \in {upload_folder[i].name : i \in DOMAIN upload_folder} : ExternalDelete(name)
    \/ \E data \in GenerateData, create_ok \in BOOLEAN, invoke_ok \in BOOLEAN :
          GenerateLocal(data, create_ok, invoke_ok)
    \/ ClearLlmCache
    \/ CacheStatus

SpecLlm == Init /\ [][LlmNext]_vars

\* two request threads, each serving one registration
RegisterNext ==
    \/ Tick
    \/ \E t \in Threads, model_info \in ModelInfos : BeginAddHfModel(t, model_info)
    \/ \E t \in Threads : ReadModelsData(t)
    \/ \E t \in Threads : SaveNewModel(t)

SpecRegister == Init /\ [][RegisterNext]_vars

\* generation requests in their threads while cache clear requests are served; the
\* statements of clear_cache on the Load Cache are taken as one step
EvictNext ==
    \/ \E model_info \in ServiceModelInfos : AddHfModel(model_info)
    \/ \E t \in Threads, model_id \in ModelIds : BeginGenerateResponse(t, model_id)
    \/ \E t \in Threads : CheckNotInCache(t)
    \/ \E t \in Threads : GetModelInfo(t)
    \/ \E t \in Threads : CheckUseCache(t)
    \/ \E t \in Threads : LoadTokenizer(t)
    \/ \E t \in Threads : LoadWeights(t)
    \/ \E t \in Threads : StoreInCache(t)
    \/ \E t \in Threads : ReadCachedModel(t)
    \/ \E t \in Threads : ReadModelsData(t)
    \/ \E t \in Threads : SaveModelsData(t)
    \/ \E model_id \in ClearIds : ClearCache(model_id)

SpecEvict == Init /\ [][EvictNext]_vars

----------------------------------------------------------------------------
(* Claims about the remote Metadata Store, checked under SpecStore.        *)

hf_count == Get(load_hf_models_list(hf_models_json_file), "count", 0)

\* C7: a register call with a fresh identifier and all required fields is followed
\* by a get(id) that returns a descriptor with the identifier, name and type of the
\* input, usage count 0, last-used-at null and status "available".
C7_RegisterThenGet ==
    [][\A model_info \in ModelInfos :
          (AddHfModel(model_info) /\ model_info["model_id"] \notin Registered)
          => LET got == get_hf_model(hf_models_json_file', model_info["model_id"])
             IN  /\ got # None
                 /\ got["model_id"] = model_info["model_id"]
                 /\ got["name"] = model_info["name"]
                 /\ got["model_type"] = model_info["model_type"]
                 /\ got["usage_count"] = 0
                 /\ got["last_used"] = None
                 /\ got["status"] = "available"]_vars

\* a second descriptor has just been registered, and get returns it
C7_Witness ==
    /\ last.op = "add_hf_model" /\ last.ok /\ last.id = "m1_x"
    /\ Len(hf_models) = 2
    /\ get_hf_model(hf_models_json_file, "m1_x")["name"] = "Model X"

\* C8: a register call that fails because the identifier already exists or because
\* a required field is absent does fail and leaves the persisted store as it was:
\* same descriptors, same count, nothing written.
C8_FailedRegisterChangesNothing ==
    [][\A model_info \in ModelInfos \cup IncompleteModelInfos :
          (/\ AddHfModel(model_info)
           /\ \/ missing_field(model_info) # 0
              \/ model_info["model_id"] \in Registered)
          => /\ ~last'.ok
             /\ last'.msg # ""
             /\ hf_models_json_file' = hf_models_json_file]_vars

\* a registration of an identifier that is in the store has just been refused
C8_Witness ==
    /\ last.op = "add_hf_model" /\ ~last.ok
    /\ last.id \in Registered
    /\ hf_count = Len(hf_models)

\* C9: unregister(id) of a registered identifier removes exactly that descriptor:
\* get(id) returns nothing afterwards, the count goes down by one, and the other
\* descriptors are unchanged and in the same order.
C9_UnregisterRemovesExactlyOne ==
    [][\A model_id \in ModelIds :
          (RemoveHfModel(model_id) /\ model_id \in Registered)
          => LET before == hf_models
                 after == hf_models'
             IN  /\ get_hf_model(hf_models_json_file', model_id) = None
                 /\ hf_count' = hf_count - 1
                 /\ hf_count' = Len(after)
                 /\ \E i \in DOMAIN before :
                        /\ before[i]["model_id"] = model_id
                        /\ after = SubSeq(before, 1, i - 1)
                                    \o SubSeq(before, i + 1, Len(before))]_vars

\* the first of two descriptors has just been unregistered
C9_Witness ==
    /\ last.op = "remove_hf_model" /\ last.ok /\ last.id = "m1"
    /\ Registered = {"m1_x"}
    /\ hf_count = 1

\* C10: after the N-th record_usage call on an identifier since it was registered,
\* its usage count is N and its last-used-at is set and not earlier than the time of
\* the first of these calls.
C10_UsageCountsCalls ==
    (last.op = "update_model_usage" /\ last.ok)
    => LET model == get_hf_model(hf_models_json_file, last.id)
       IN  /\ model # None
           /\ model["usage_count"] = usage_calls[last.id]
           /\ model["last_used"] # None
           /\ model["last_used"][1] >= first_use[last.id]

\* the second record_usage call on one identifier, later than the first
C10_Witness ==
    /\ last.op = "update_model_usage" /\ last.ok
    /\ usage_calls[last.id] = 2
    /\ first_use[last.id] = 1
    /\ get_hf_model(hf_models_json_file, last.id)["last_used"] = isoformat(2)

----------------------------------------------------------------------------
(* Claims about the Load Cache and the Generation Dispatcher, under Spec.  *)

\* a load step fails: the tokenizer acquisition, or every weights acquisition that
\* the declared type lets the load try
LoadStepFails(model_type, rt) ==
    \/ ~rt.tokenizer_ok
    \/ model_type \in causal_types /\ ~rt.causal_ok
    \/ model_type \in seq2seq_types /\ ~rt.seq2seq_ok
    \/ model_type \notin causal_types \cup seq2seq_types /\ ~rt.causal_ok /\ ~rt.seq2seq_ok

\* the from_pretrained calls of a full load sequence start with the tokenizer and go
\* on to a model class
FullLoadSequence(called) ==
    /\ Len(called) >= 2
    /\ called[1] = "AutoTokenizer"
    /\ \A i \in 2..Len(called) : called[i] \in {"AutoModelForCausalLM", "AutoModelForSeq2SeqLM"}

FailedLoad(l) ==
    /\ l.op = "load_model" /\ ~l.ok
    /\ l.called # <<>>
    /\ SubSeq(l.msg, 1, 22) = "Failed to load model: "

\* C2 as stated: after an ensure_loaded call in which a load step failed, from any
\* cache state and with or without force_reload, the Load Cache has no entry for
\* the identifier.
C2_NoEntryAfterFailedLoad ==
    FailedLoad(last) => last.id \notin DOMAIN _model_cache

\* C2, amended: an ensure_loaded call in which a load step fails returns a
\* LoadFailed result and leaves the Load Cache as it was, so it creates no entry
\* (the complete entry of an earlier load stays when force_reload was set); and
\* while the identifier has no entry, the next ensure_loaded of the registered
\* identifier runs the load sequence from its first step, and in full unless the
\* tokenizer fails again.
C2_FailedLoadLeavesCache ==
    [][\A model_id \in ModelIds, force_reload \in BOOLEAN, rt \in RuntimeOutcomes :
          (/\ last'.op = "load_model" /\ last'.id = model_id
           /\ last'.force_reload = force_reload
           /\ LoadModel(model_id, force_reload, rt)
           /\ model_id \in Registered)
          => LET model_type == get_hf_model(hf_models_json_file, model_id)["model_type"]
                 runs == model_id \notin DOMAIN _model_cache \/ force_reload
             IN  /\ (runs /\ LoadStepFails(model_type, rt))
                    => /\ FailedLoad(last')
                       /\ _model_cache' = _model_cache
                 /\ (FailedLoad(last) /\ last.id = model_id
                      /\ model_id \notin DOMAIN _model_cache)
                    => /\ last'.called # <<>>
                       /\ last'.called[1] = "AutoTokenizer"
                       /\ rt.tokenizer_ok => FullLoadSequence(last'.called)
                       /\ last'.ok => _model_cache'[model_id]["model"]["load"]
                                          = load_sequences[model_id] + 1]_vars

\* a forced reload of a loaded identifier has just failed in a load step: the entry
\* of the first load is still in the cache
C2_Witness ==
    /\ FailedLoad(last) /\ last.force_reload
    /\ load_sequences[last.id] = 2
    /\ last.id \in DOMAIN _model_cache
    /\ _model_cache[last.id]["model"]["load"] = 1
    /\ _model_cache[last.id]["tokenizer"]["load"] = 1

\* C3: of two ensure_loaded calls in sequence for a registered identifier without
\* force_reload, the first runs the load steps and the second is a cache hit that
\* runs none and leaves the entry unchanged; a call with force_reload runs the load
\* steps again and, when they succeed, replaces the entry.
C3_LoadOnceUnlessForced ==
    [][\A model_id \in ModelIds, force_reload \in BOOLEAN, rt \in RuntimeOutcomes :
          (/\ last'.op = "load_model" /\ last'.id = model_id
           /\ last'.force_reload = force_reload
           /\ LoadModel(model_id, force_reload, rt)
           /\ model_id \in Registered)
          => IF model_id \in DOMAIN _model_cache /\ ~force_reload
             THEN /\ last'.ok
                  /\ last'.called = <<>>
                  /\ load_sequences' = load_sequences
                  /\ _model_cache' = _model_cache
             ELSE /\ last'.called # <<>>
                  /\ last'.called[1] = "AutoTokenizer"
                  /\ load_sequences'[model_id] = load_sequences[model_id] + 1
                  /\ last'.ok
                     => /\ FullLoadSequence(last'.called)
                        /\ model_id \in DOMAIN _model_cache'
                        /\ _model_cache'[model_id]["model"]["load"] = load_sequences'[model_id]
                        /\ _model_cache'[model_id]["tokenizer"]["load"]
                              = load_sequences'[model_id]
                        /\ model_id \in DOMAIN _model_cache
                           => _model_cache'[model_id] # _model_cache[model_id]]_vars

\* a cache hit on the entry that a forced reload put in place of the first one
C3_Witness ==
    /\ last.op = "load_model" /\ last.ok /\ ~last.force_reload
    /\ last.called = <<>>
    /\ load_sequences[last.id] = 2
    /\ _model_cache[last.id]["model"]["load"] = 2

ParameterKeys ==
    {"max_new_tokens", "temperature", "do_sample", "top_p", "top_k", "repetition_penalty",
     "num_beams", "seed", "min_length"}

\* C4: the effective parameters of a direct generation give every key the value of
\* the request if the request has the key, otherwise the value stored with the
\* descriptor the model was loaded from, otherwise the runtime default; a key that
\* no layer has is absent.
C4_ThreeLayerMerge ==
    (last.op = "generate_response" /\ last.ok)
    => LET request == last.generation_kwargs
           stored == Get(_model_cache[last.id]["model_info"], "parameters", EmptyDict)
           params == last.parameters
       IN  /\ DOMAIN params \subseteq ParameterKeys
           /\ \A k \in ParameterKeys :
                 IF k \in DOMAIN request
                 THEN k \in DOMAIN params /\ params[k] = request[k]
                 ELSE IF k \in DOMAIN stored
                 THEN k \in DOMAIN params /\ params[k] = stored[k]
                 ELSE IF k \in DOMAIN runtime_defaults
                 THEN k \in DOMAIN params /\ params[k] = runtime_defaults[k]
                 ELSE k \notin DOMAIN params

\* a generation in which each layer decides a key: the request max_new_tokens and
\* seed, the descriptor num_beams, the defaults top_k
C4_Witness ==
    /\ last.op = "generate_response" /\ last.ok
    /\ last.generation_kwargs = [max_new_tokens |-> 10, seed |-> 7]
    /\ get_hf_model(hf_models_json_file, last.id)["parameters"]
         = [max_new_tokens |-> 50, num_beams |-> 2]
    /\ last.parameters["max_new_tokens"] = 10
    /\ last.parameters["num_beams"] = 2
    /\ last.parameters["top_k"] = 50
    /\ "min_length" \notin DOMAIN last.parameters
    /\ get_hf_model(hf_models_json_file, last.id)["usage_count"] = 1

----------------------------------------------------------------------------
(* Claims about concurrent requests, under SpecConc, and about the         *)
(* snapshots of both families, under SpecLocal and SpecFamilies.           *)

\* C1: when two ensure_loaded calls or two generation requests for one registered
\* identifier that is not loaded run concurrently, the tokenizer and the weights are
\* acquired at most once in all, and both callers use the same Loaded Artifact.
\* No request of SpecConc forces a reload and no load fails, so every load sequence
\* after the first for an identifier is a redundant one.
C1_OneLoadForConcurrentCalls ==
    \A model_id \in ModelIds :
        /\ load_sequences[model_id] <= 1
        /\ \A t, u \in Threads :
              (/\ threads[t].model_id = model_id /\ threads[u].model_id = model_id
               /\ threads[t].cached_model # None /\ threads[u].cached_model # None)
              => threads[t].cached_model = threads[u].cached_model

\* C5: in every reachable state no two descriptors of a family's Metadata Store
\* have the same identifier: model_id in the remote family, filename in the local.
C5_UniqueIdentifiers ==
    /\ \A i, j \in DOMAIN hf_models :
          hf_models[i]["model_id"] = hf_models[j]["model_id"] => i = j
    /\ \A i, j \in DOMAIN local_models :
          local_models[i]["filename"] = local_models[j]["filename"] => i = j

\* C6: once a family's snapshot is persisted, after every mutating operation of
\* either family its count field is the number of descriptors in its collection.
C6_CountIsSize ==
    /\ hf_models_json_file # NoFile
       => /\ "count" \in DOMAIN load_hf_models_list(hf_models_json_file)
          /\ hf_count = Len(hf_models)
    /\ models_json_file # NoFile
       => /\ "count" \in DOMAIN load_models_list(models_json_file)
          /\ local_count = Len(local_models)

\* both snapshots have grown and shrunk: the remote one holds two descriptors, one
\* of them used, and the local one holds one after a delete
C6_Witness ==
    /\ hf_count = 2 /\ Len(hf_models) = 2
    /\ \E i \in DOMAIN hf_models : hf_models[i]["usage_count"] = 1
    /\ last.op = "delete_model" /\ last.ok
    /\ local_count = 1 /\ Len(local_models) = 1

----------------------------------------------------------------------------
(* Claims about the descriptors of the remote Metadata Store.              *)

\* C11: the usage count of a descriptor that stays registered never decreases, in
\* any sequence or interleaving of update, record_usage and generation calls, each
\* of which reads the snapshot, changes it and writes the whole snapshot back.
C11_UsageNeverDecreases ==
    [][\A model_id \in ModelIds :
          (model_id \in Registered /\ model_id \in Registered')
          => get_hf_model(hf_models_json_file', model_id)["usage_count"]
               >= get_hf_model(hf_models_json_file, model_id)["usage_count"]]_vars

\* C12: update(id, fields) on a registered identifier raises no error, leaves the
\* descriptor's identifier, registered-at and usage count as they were whatever the
\* payload holds, sets every other field of the payload to the value supplied,
\* leaves the fields the payload does not name, and leaves every other descriptor
\* unchanged.
C12_UpdateKeepsProtectedFields ==
    [][\A model_id \in ModelIds, updates \in Updates :
          (/\ last'.op = "update_model_info" /\ last'.id = model_id
           /\ UpdateModelInfo(model_id, updates)
           /\ model_id \in Registered)
          => LET before == hf_models
                 after == hf_models'
                 i == CHOOSE k \in DOMAIN before : before[k]["model_id"] = model_id
             IN  /\ last'.ok
                 /\ Len(after) = Len(before)
                 /\ \A j \in DOMAIN before : j # i => after[j] = before[j]
                 /\ \A key \in {"model_id", "added_date", "usage_count"} :
                       after[i][key] = before[i][key]
                 /\ \A key \in (DOMAIN updates) \ {"model_id", "added_date", "usage_count"} :
                       key \in DOMAIN after[i] /\ after[i][key] = updates[key]
                 /\ \A key \in (DOMAIN before[i]) \ (DOMAIN updates) :
                       after[i][key] = before[i][key]
                 /\ DOMAIN after[i] = (DOMAIN before[i]) \cup (DOMAIN updates)]_vars

\* the second of two descriptors, used once, has just been updated with a payload
\* that names all three protected fields, an old field and a new one
C12_Witness ==
    /\ last.op = "update_model_info" /\ last.ok /\ last.id = "m1_x"
    /\ Len(hf_models) = 2
    /\ hf_models[2]["model_id"] = "m1_x"
    /\ hf_models[2]["usage_count"] = 1
    /\ hf_models[2]["description"] = "updated"
    /\ hf_models[2]["tags"] = "demo"
    /\ "tags" \notin DOMAIN hf_models[1]

\* C18: when the write of the snapshot fails during add_hf_model or
\* remove_hf_model, the call still returns without an error and its change stays in
\* effect: a get_hf_model call that follows finds the descriptor that was added and
\* does not find the one that was removed.
C18_MutationSurvivesFailedWrite ==
    /\ (last.op = "add_hf_model" /\ last.ok)
       => get_hf_model(hf_models_json_file, last.id) # None
    /\ (last.op = "remove_hf_model" /\ last.ok)
       => get_hf_model(hf_models_json_file, last.id) = None

\* C16: generate_response succeeds only for an identifier that is registered in
\* the Metadata Store when it is called; for any other identifier it fails, also
\* after the identifier was added, loaded and removed.
C16_GenerationNeedsRegistration ==
    (last.op = "generate_response" /\ last.ok) => last.id \in Registered

----------------------------------------------------------------------------
(* Claims about the two caches of the service, checked under SpecCache.    *)

\* C13: after clear_cache(id) returns, from any reachable state of the caches, the
\* Load Cache has no entry for id and the Pipeline Cache has no key that starts
\* with id.
C13_EvictRemovesEntryAndPipelines ==
    (last.op = "clear_cache" /\ last.id # "")
    => /\ last.id \notin DOMAIN _model_cache
       /\ \A k \in DOMAIN _pipeline_cache : ~startswith(k, last.id)

\* C14: clear_cache(id) reports success exactly when id had a Load Cache entry
\* before the call, and then the entry is gone; when id had none it returns the
\* negative result "not in cache" and leaves both caches as they were.
C14_EvictReportsWhetherCached ==
    [][\A model_id \in ModelIds :
          (/\ last'.op = "clear_cache" /\ last'.id = model_id
           /\ ClearCache(model_id))
          => /\ last'.ok <=> model_id \in DOMAIN _model_cache
             /\ model_id \in DOMAIN _model_cache
                  => /\ last'.msg = "Cache cleared for " \o model_id
                     /\ model_id \notin DOMAIN _model_cache'
             /\ model_id \notin DOMAIN _model_cache
                  => /\ last'.msg = "Model " \o model_id \o " not in cache"
                     /\ _model_cache' = _model_cache
                     /\ _pipeline_cache' = _pipeline_cache]_vars

\* clear_cache("m1") has just answered "not in cache" while the other identifier is
\* loaded and a pipeline of "m1" is cached
C14_Witness ==
    /\ last.op = "clear_cache" /\ last.id = "m1" /\ ~last.ok
    /\ DOMAIN _model_cache = {"m1_x"}
    /\ pipeline_key("m1", "t") \in DOMAIN _pipeline_cache

\* C15: clear_cache without an identifier succeeds and empties both caches: the
\* get_cached_models and get_cache_info calls that follow it immediately return
\* no identifier and no pipeline key, whatever was cached before.
C15_EvictAllEmptiesBothCaches ==
    [][/\ (last'.op = "clear_cache" /\ last'.id = "" /\ ClearCache(""))
          => /\ last'.ok
             /\ _model_cache' = EmptyDict
             /\ _pipeline_cache' = EmptyDict
             /\ get_cached_models(_model_cache') = {}
             /\ get_cache_info(_model_cache', _pipeline_cache').cached_pipelines = {}
             /\ get_cache_info(_model_cache', _pipeline_cache').total_cached = 0
       /\ (last.op = "clear_cache" /\ last.id = "" /\ GetCachedModels)
          => last'.result = {}
       /\ (last.op = "clear_cache" /\ last.id = "" /\ GetCacheInfo)
          => last'.result.cached_pipelines = {} /\ last'.result.cached_models = EmptyDict]_vars

\* everything has just been cleared after both identifiers were loaded and one of
\* them was used
C15_Witness ==
    /\ last.op = "clear_cache" /\ last.id = "" /\ last.ok
    /\ load_sequences["m1"] = 1 /\ load_sequences["m1_x"] = 1
    /\ \E i \in DOMAIN hf_models : hf_models[i]["usage_count"] = 1
    /\ _model_cache = EmptyDict /\ _pipeline_cache = EmptyDict

\* the identifiers of the persisted snapshot, in the order of the list
registered_ids == [i \in DOMAIN hf_models |-> hf_models[i]["model_id"]]

\* C17: no load_model, generate_response, generate_with_pipeline, clear_cache,
\* get_cached_models or get_cache_info call adds a descriptor to the Metadata Store
\* or removes one from it.
C17_ServiceCallsKeepRegistry ==
    [][last'.op \in {"load_model", "generate_response", "generate_with_pipeline",
                      "clear_cache", "get_cached_models", "get_cache_info"}
       => registered_ids' = registered_ids]_vars

\* a direct generation has just succeeded on an identifier that was unregistered
\* after its load, while the other identifier is registered
C17_Witness ==
    /\ last.op = "generate_response" /\ last.ok /\ last.id = "m1"
    /\ Registered = {"m1_x"}

----------------------------------------------------------------------------
(* Claims about the reconciliation scan of the local family.               *)

\* the names of the artifact files of the folder: the entries the scan lists
artifact_names ==
    {upload_folder[i].name : i \in {j \in DOMAIN upload_folder :
                                        endswith(upload_folder[j].name, ".gguf")}}

\* C19: after a scan (the list and the sync request), the persisted snapshot holds
\* exactly one descriptor for each .gguf file of the folder and no descriptor for
\* any other name, whatever it held before the scan.
C19_ScanRebuildsSnapshot ==
    [][(last'.op \in {"list_models", "sync_models"} /\ (ListModels \/ SyncModels))
       => LET after == local_models'
          IN  /\ \A name \in artifact_names :
                    Cardinality({i \in DOMAIN after : after[i]["filename"] = name}) = 1
              /\ \A i \in DOMAIN after : after[i]["filename"] \in artifact_names
              /\ local_count' = Cardinality(artifact_names)]_vars

\* a sync has just been answered in a folder that holds an uploaded artifact, an
\* artifact copied there by hand and a file that is no artifact
C19_Witness ==
    /\ last.op = "sync_models" /\ last.ok
    /\ artifact_names = {"a.gguf", "b.GGUF.gguf"}
    /\ path_exists(upload_folder, "notes.txt")
    /\ entry_of(upload_folder, "a.gguf").size = FileSizes.external
    /\ Len(local_models) = 2

\* C20: a scan keeps the upload_date of every descriptor that was in the snapshot
\* before it and whose file is still in the folder, gives the descriptor of a newly
\* found file an upload_date equal to its modification time, and takes size and
\* modified_date of every descriptor from the file.
C20_ScanKeepsUploadDates ==
    [][(last'.op \in {"list_models", "sync_models"} /\ (ListModels \/ SyncModels))
       => LET before == local_models
              after == local_models'
          IN  /\ \A i \in DOMAIN before, j \in DOMAIN after :
                    after[j]["filename"] = before[i]["filename"]
                    => after[j]["upload_date"] = before[i]["upload_date"]
              /\ \A j \in DOMAIN after :
                    (\A i \in DOMAIN before : before[i]["filename"] # after[j]["filename"])
                    => after[j]["upload_date"]
                         = isoformat(entry_of(upload_folder, after[j]["filename"]).mtime)
              /\ \A j \in DOMAIN after :
                    /\ after[j]["size"] = entry_of(upload_folder, after[j]["filename"]).size
                    /\ after[j]["modified_date"]
                         = isoformat(entry_of(upload_folder, after[j]["filename"]).mtime)]_vars

----------------------------------------------------------------------------
(* Claims about the statistics of the remote Metadata Store.               *)

\* C21: get_statistics returns the number of descriptors, the sum of all usage
\* counts (which is the number of uses recorded on the registered identifiers), a
\* histogram by type whose values sum to the number of descriptors, and as most
\* used the first descriptor of the list among those with the greatest usage
\* count; most used is None when there is no descriptor.
C21_Statistics ==
    last.op = "get_statistics"
    => LET stats == last.result
           uses == [i \in DOMAIN hf_models |-> hf_models[i]["usage_count"]]
       IN  /\ stats.total_models = Len(hf_models)
           /\ stats.total_usage
                = SumOver(usage_calls, Registered \cap ModelIds)
           /\ SumOver(stats.model_types, DOMAIN stats.model_types) = Len(hf_models)
           /\ \A t \in DOMAIN stats.model_types :
                 stats.model_types[t]
                   = Cardinality({i \in DOMAIN hf_models : hf_models[i]["model_type"] = t})
           /\ \A i \in DOMAIN hf_models : hf_models[i]["model_type"] \in DOMAIN stats.model_types
           /\ hf_models = <<>> <=> stats.most_used = None
           /\ hf_models # <<>>
                => \E i \in DOMAIN hf_models :
                      /\ stats.most_used = hf_models[i]
                      /\ \A j \in DOMAIN hf_models : uses[j] <= uses[i]
                      /\ \A j \in DOMAIN hf_models : j < i => uses[j] < uses[i]

\* the statistics of two descriptors of one type that were both used once
C21_Witness ==
    /\ last.op = "get_statistics"
    /\ Len(hf_models) = 2
    /\ hf_models[1]["usage_count"] = 1 /\ hf_models[2]["usage_count"] = 1
    /\ last.result.most_used = hf_models[1]
    /\ last.result.model_types = [t \in {"text-generation"} |-> 2]
    /\ last.result.total_usage = 2

----------------------------------------------------------------------------
(* Claims about the generation calls and the load sequence.                *)

\* C22: a generate_response or generate_with_pipeline call that returns success
\* increments the usage count of the model by exactly one and sets its last_used;
\* one that returns a failure leaves the descriptors as they were; and no call
\* starts more than one load sequence.
C22_UsageRecordedOnSuccessOnly ==
    [][\A model_id \in ModelIds :
          (last'.op \in {"generate_response", "generate_with_pipeline"} /\ last'.id = model_id)
          => LET before == get_hf_model(hf_models_json_file, model_id)
                 after == get_hf_model(hf_models_json_file', model_id)
             IN  /\ load_sequences'[model_id] <= load_sequences[model_id] + 1
                 /\ IF last'.ok
                    THEN /\ before # None /\ after # None
                         /\ after["usage_count"] = before["usage_count"] + 1
                         /\ after["last_used"] = isoformat(clock)
                    ELSE hf_models' = hf_models]_vars

\* C23: load_model looks at the Load Cache before it looks at the registry: when
\* the identifier has a Load Cache entry and force_reload is false, the call
\* returns a successful cache hit, calls no from_pretrained and leaves the cache
\* as it is.
C23_CacheHitBeforeRegistry ==
    [][\A model_id \in ModelIds, rt \in RuntimeOutcomes :
          (/\ last'.op = "load_model" /\ last'.id = model_id /\ ~last'.force_reload
           /\ LoadModel(model_id, FALSE, rt)
           /\ model_id \in DOMAIN _model_cache)
          => /\ last'.ok
             /\ last'.called = <<>>
             /\ _model_cache' = _model_cache
             /\ load_sequences' = load_sequences]_vars

\* C24: load_model for an identifier that is neither registered nor cached fails
\* with "not found in registry" before any load step: no from_pretrained is called,
\* no load sequence starts and no Load Cache entry is written.
C24_UnregisteredLoadFailsFirst ==
    [][\A model_id \in ModelIds, force_reload \in BOOLEAN, rt \in RuntimeOutcomes :
          (/\ last'.op = "load_model" /\ last'.id = model_id
           /\ LoadModel(model_id, force_reload, rt)
           /\ model_id \notin Registered /\ model_id \notin DOMAIN _model_cache)
          => /\ ~last'.ok
             /\ last'.msg = "Model '" \o model_id \o "' not found in registry. Please add it first."
             /\ last'.called = <<>>
             /\ _model_cache' = _model_cache
             /\ load_sequences' = load_sequences]_vars

\* a forced load of an identifier that is neither registered nor cached has just
\* failed, while the other identifier is registered and loaded
C24_Witness ==
    /\ last.op = "load_model" /\ last.id = "m1_x" /\ ~last.ok /\ last.force_reload
    /\ last.called = <<>>
    /\ Registered = {"m1"}
    /\ DOMAIN _model_cache = {"m1"}
    /\ load_sequences["m1_x"] = 0

----------------------------------------------------------------------------
(* Claims about the Pipeline Cache.                                        *)

\* C25: a generate_with_pipeline request for (model_id, task) that succeeds was
\* served by a pipeline that was constructed for that model_id and that task: no
\* two different pairs share an entry of the Pipeline Cache.
C25_PipelinePerPair ==
    (last.op = "generate_with_pipeline" /\ last.ok)
    => /\ _pipeline_cache[pipeline_key(last.id, last.task)].model = last.id
       /\ _pipeline_cache[pipeline_key(last.id, last.task)].task = last.task

\* C26: generate_with_pipeline for an identifier that is not registered when it is
\* called returns the "not found in registry" failure, which is returned before
\* any pipeline is constructed or called, and leaves the Pipeline Cache and the
\* descriptors unchanged, also when a pipeline of that identifier and task is
\* cached.
C26_PipelineNeedsRegistration ==
    [][(last'.op = "generate_with_pipeline" /\ last'.id \notin Registered)
       => /\ ~last'.ok
          /\ last'.msg = "Model '" \o last'.id \o "' not found in registry"
          /\ _pipeline_cache' = _pipeline_cache
          /\ _model_cache' = _model_cache
          /\ hf_models_json_file' = hf_models_json_file]_vars

\* a pipeline request has just failed for an identifier that is not registered
\* while the pipeline of the request is cached
C26_Witness ==
    /\ last.op = "generate_with_pipeline" /\ ~last.ok
    /\ last.id = "m1" /\ last.task = "t"
    /\ "m1" \notin Registered
    /\ pipeline_key("m1", "t") \in DOMAIN _pipeline_cache
    /\ _pipeline_cache[pipeline_key("m1", "t")].model = "m1"

\* C27: generate_with_pipeline never adds, replaces or removes a Load Cache entry,
\* and load_model and generate_response never add, replace or remove a Pipeline
\* Cache entry.
C27_IndependentCaches ==
    [][/\ last'.op = "generate_with_pipeline" => _model_cache' = _model_cache
       /\ last'.op \in {"load_model", "generate_response"}
            => _pipeline_cache' = _pipeline_cache]_vars

\* a direct generation has just loaded an identifier of which a pipeline is
\* cached, and the pipeline is still cached
C27_Witness ==
    /\ last.op = "generate_response" /\ last.ok /\ last.id = "m1"
    /\ last.called # <<>>
    /\ DOMAIN _model_cache = {"m1"}
    /\ DOMAIN _pipeline_cache = {pipeline_key("m1", "t")}

----------------------------------------------------------------------------
(* Claims about generation while the cache is cleared.                     *)

\* C28: in any interleaving of a generate_response call for a registered
\* identifier with clear_cache calls, a generation that saw the identifier in the
\* Load Cache, or whose load_model call reported success, finds the entry of its
\* identifier when it reads the Load Cache.
C28_EntryStaysForReader ==
    [][\A t \in Threads :
          (/\ threads[t].pc = "cached_model"
           /\ threads[t].model_id \in Registered
           /\ ReadCachedModel(t))
          => /\ threads'[t].cached_model # None
             /\ threads'[t].pc # "done"]_vars

----------------------------------------------------------------------------
(* Claims about the acquisition of the weights, checked under SpecLoad.    *)

\* C29: a load sequence that has its tokenizer acquires the weights by the declared
\* model_type of the descriptor: for text-generation and conversational only
\* AutoModelForCausalLM is called, for text2text-generation, summarization and
\* translation only AutoModelForSeq2SeqLM, and the load fails when that call fails;
\* for any other type AutoModelForCausalLM is called first, AutoModelForSeq2SeqLM
\* only when the first call failed, and the load fails only when both fail.
C29_WeightsByDeclaredType ==
    [][\A model_id \in ModelIds, force_reload \in BOOLEAN, rt \in RuntimeOutcomes :
          (/\ last'.op = "load_model" /\ last'.id = model_id
           /\ Len(last'.called) >= 2
           /\ LoadModel(model_id, force_reload, rt))
          => LET model_type == get_hf_model(hf_models_json_file, model_id)["model_type"]
                 weights == SubSeq(last'.called, 2, Len(last'.called))
                 class == IF last'.ok THEN _model_cache'[model_id].model.class ELSE ""
             IN  /\ last'.called[1] = "AutoTokenizer"
                 /\ model_type \in {"text-generation", "conversational"}
                      => /\ weights = <<"AutoModelForCausalLM">>
                         /\ last'.ok <=> rt.causal_ok
                         /\ last'.ok => class = "AutoModelForCausalLM"
                 /\ model_type \in {"text2text-generation", "summarization", "translation"}
                      => /\ weights = <<"AutoModelForSeq2SeqLM">>
                         /\ last'.ok <=> rt.seq2seq_ok
                         /\ last'.ok => class = "AutoModelForSeq2SeqLM"
                 /\ model_type \notin {"text-generation", "conversational",
                                       "text2text-generation", "summarization", "translation"}
                      => /\ weights[1] = "AutoModelForCausalLM"
                         /\ rt.causal_ok
                              => weights = <<"AutoModelForCausalLM">>
                                 /\ class = "AutoModelForCausalLM"
                         /\ ~rt.causal_ok
                              => weights = <<"AutoModelForCausalLM", "AutoModelForSeq2SeqLM">>
                         /\ last'.ok <=> (rt.causal_ok \/ rt.seq2seq_ok)
                         /\ (last'.ok /\ ~rt.causal_ok) => class = "AutoModelForSeq2SeqLM"]_vars

\* a load of the descriptor of a sequence-to-sequence type has just failed after
\* one weights call, while the descriptor of another type is loaded with the
\* class it fell back to
C29_Witness ==
    /\ last.op = "load_model" /\ last.id = "m1" /\ ~last.ok
    /\ last.called = <<"AutoTokenizer", "AutoModelForSeq2SeqLM">>
    /\ get_hf_model(hf_models_json_file, "m1")["model_type"] = "text2text-generation"
    /\ "m1_x" \in DOMAIN _model_cache
    /\ _model_cache["m1_x"].model.class = "AutoModelForSeq2SeqLM"
    /\ _model_cache["m1_x"].model_info["model_type"] = "fill-mask"

----------------------------------------------------------------------------
(* Claims about calls on identifiers the remote Metadata Store lacks.      *)

\* C30: remove_hf_model, update_model_info and update_model_usage on an identifier
\* that is not in the snapshot leave the JSON file as it is (descriptors, count and
\* last_updated): the first two raise "not found", the third returns False and
\* raises nothing.
C30_AbsentIdentifierChangesNothing ==
    [][\A model_id \in ModelIds :
          (/\ last'.op \in {"remove_hf_model", "update_model_info", "update_model_usage"}
           /\ last'.id = model_id
           /\ model_id \notin Registered
           /\ \/ RemoveHfModel(model_id)
              \/ \E updates \in Updates : UpdateModelInfo(model_id, updates)
              \/ UpdateModelUsage(model_id))
          => /\ hf_models_json_file' = hf_models_json_file
             /\ ~last'.ok
             /\ last'.msg = IF last'.op = "update_model_usage" THEN ""
                            ELSE "Model with ID '" \o model_id \o "' not found"
             /\ usage_calls' = usage_calls]_vars

\* an update of an identifier that was removed has just failed, while the other
\* identifier is registered and was used
C30_Witness ==
    /\ last.op = "update_model_info" /\ last.id = "m1" /\ ~last.ok
    /\ Registered = {"m1_x"}
    /\ hf_models[1]["usage_count"] = 1
    /\ hf_count = 1
    /\ "tags" \notin DOMAIN hf_models[1]

----------------------------------------------------------------------------
(* Claims about the removal of a local model.                              *)

\* C31: a delete request whose file exists removes the model from the folder and
\* from the persisted list: after a successful call the file is not in the folder
\* and the snapshot has no descriptor with that filename, while the other
\* descriptors are kept; when os.remove fails the error is answered and the folder
\* and the snapshot are unchanged.
C31_RemoveFileAndDescriptor ==
    [][\A model_name \in DeleteNames, remove_ok \in BOOLEAN :
          (/\ last'.op = "delete_model"
           /\ DeleteModel(model_name, remove_ok)
           /\ model_exists(upload_folder, last'.id))
          => IF remove_ok
             THEN /\ last'.ok
                  /\ ~path_exists(upload_folder', last'.id)
                  /\ local_models' = SelectSeq(local_models,
                                               LAMBDA m : m["filename"] # last'.id)
                  /\ local_count' = Len(local_models')
                  /\ upload_folder' = SelectSeq(upload_folder, LAMBDA e : e.name # last'.id)
             ELSE /\ ~last'.ok
                  /\ last'.msg = "Failed to delete model"
                  /\ models_json_file' = models_json_file
                  /\ upload_folder' = upload_folder]_vars

\* the deletion of an uploaded model has just failed: its file and its descriptor
\* are still there
C31_Witness ==
    /\ last.op = "delete_model" /\ ~last.ok /\ last.msg = "Failed to delete model"
    /\ last.id = "a.gguf"
    /\ path_exists(upload_folder, "a.gguf")
    /\ \E i \in DOMAIN local_models : local_models[i]["filename"] = "a.gguf"

----------------------------------------------------------------------------
(* Further claims about the caches of the service.                         *)

\* C32: clear_cache(id) leaves the Load Cache entries of every other identifier
\* and the pipelines of every other identifier as they are, also when one
\* identifier is a prefix of another.
C32_EvictKeepsOtherIdentifiers ==
    [][(last'.op = "clear_cache" /\ last'.id # "")
       => /\ \A model_id \in (DOMAIN _model_cache) \ {last'.id} :
                /\ model_id \in DOMAIN _model_cache'
                /\ _model_cache'[model_id] = _model_cache[model_id]
          /\ \A k \in DOMAIN _pipeline_cache :
                _pipeline_cache[k].model # last'.id
                => /\ k \in DOMAIN _pipeline_cache'
                   /\ _pipeline_cache'[k] = _pipeline_cache[k]]_vars

\* C33: every identifier that has a Load Cache entry or a pipeline in the Pipeline
\* Cache is registered: remove_hf_model leaves no cached model or pipeline of the
\* identifier behind.
C33_CachedIsRegistered ==
    /\ DOMAIN _model_cache \subseteq Registered
    /\ \A k \in DOMAIN _pipeline_cache : _pipeline_cache[k].model \in Registered

\* C34: the stored-parameter layer of a direct generation is the descriptor kept in
\* the Load Cache entry, which is the descriptor of the store at load time: a
\* generation on a cached identifier merges the parameters of that kept descriptor,
\* update_model_info leaves the Load Cache as it is, and the kept descriptor of an
\* entry changes only by a load_model call with force_reload (or, once the entry is
\* gone, by the next load), which stores the descriptor the store holds then.
C34_StoredLayerIsLoadSnapshot ==
    [][/\ (last'.op = "generate_response" /\ last'.ok /\ last'.id \in DOMAIN _model_cache)
          => /\ last'.parameters =
                   effective_params(Get(_model_cache[last'.id].model_info, "parameters", EmptyDict),
                                    last'.generation_kwargs)
             /\ _model_cache' = _model_cache
       /\ last'.op = "update_model_info" => _model_cache' = _model_cache
       /\ \A model_id \in DOMAIN _model_cache' :
             (model_id \notin DOMAIN _model_cache
              \/ _model_cache'[model_id].model_info # _model_cache[model_id].model_info)
             => /\ last'.id = model_id
                /\ last'.op \in {"load_model", "generate_response"}
                /\ model_id \in DOMAIN _model_cache
                   => (last'.op = "load_model" /\ last'.force_reload)
                /\ _model_cache'[model_id].model_info = get_hf_model(hf_models_json_file, model_id)]_vars

\* a generation on a model loaded before its parameters were updated: the store
\* holds the new parameters, the generation ran with the ones of the load
C34_Witness ==
    /\ last.op = "generate_response" /\ last.ok /\ last.id = "m1"
    /\ last.called = <<>>
    /\ get_hf_model(hf_models_json_file, "m1")["parameters"] = [max_new_tokens |-> 20, top_k |-> 5]
    /\ _model_cache["m1"].model_info["parameters"] = [max_new_tokens |-> 50, num_beams |-> 2]
    /\ last.generation_kwargs = EmptyDict
    /\ last.parameters["max_new_tokens"] = 50
    /\ last.parameters["top_k"] = 50

\* C35: when two add_hf_model calls with distinct identifiers new to the store run
\* in two threads and both return the new descriptor, both descriptors are in the
\* store and count is the length of the list.
C35_ConcurrentRegistrationsKept ==
    \A t1, t2 \in Threads :
        (/\ threads[t1].pc = "done" /\ threads[t1].op = "add_hf_model" /\ threads[t1].success
         /\ threads[t2].pc = "done" /\ threads[t2].op = "add_hf_model" /\ threads[t2].success
         /\ threads[t1].model_id # threads[t2].model_id)
        => /\ {threads[t1].model_id, threads[t2].model_id} \subseteq Registered
           /\ Get(load_hf_models_list(hf_models_json_file), "count", 0) = Len(hf_models)

\* C36: a scan that follows a scan, with the folder as the first one left it, returns
\* and persists the same descriptors and the same count as the first one, at whatever
\* time it runs; only last_updated may differ.
C36_ScanIdempotent ==
    [][(last'.op \in {"list_models", "sync_models"} /\ (ListModels \/ SyncModels))
       => \A now \in {isoformat(t) : t \in 0..MaxClock} :
            LET again == update_models_list(models_json_file', upload_folder', now,
                                            disk_writable)
            IN  /\ again.ret["models"] = local_models'
                /\ again.ret["count"] = local_count'
                /\ again.ret["last_updated"] = now
                /\ Get(load_models_list(again.file), "models", <<>>) = local_models'
                /\ Get(load_models_list(again.file), "count", 0) = local_count']_vars

\* a scan has been answered on a folder with an artifact whose file changed after its
\* upload, so that a second scan has an upload_date to keep
C36_Witness ==
    /\ last.op \in {"list_models", "sync_models"} /\ last.ok
    /\ Len(local_models) >= 1
    /\ \E i \in DOMAIN local_models :
          local_models[i]["upload_date"] # local_models[i]["modified_date"]
    /\ update_models_list(models_json_file, upload_folder, isoformat(clock),
                          disk_writable).ret["models"] = local_models

\* C37: the instance cache of the local family holds an entry for a key only once
\* _create_llm has returned the instance for that key; a generation whose key is in
\* the cache uses the cached instance, calls _create_llm no more and leaves the
\* cache as it is; entries leave the cache only by clear_cache, which empties it.
C37_InstanceCache ==
    [][/\ \A k \in DOMAIN _llm_cache' :
             /\ _llm_cache'[k] # None
             /\ k \notin DOMAIN _llm_cache
                => /\ last'.op = "generate_response_local"
                   /\ last'.cache_key = k
                   /\ k = cache_key(last'.id, last'.llm_params)
                   /\ last'.msg # "create"
                   /\ create_calls' = create_calls + 1
                   /\ _llm_cache'[k] = _create_llm(get_model_path(last'.id), last'.llm_params,
                                                   create_calls')
       /\ \A data \in GenerateData, create_ok \in BOOLEAN, invoke_ok \in BOOLEAN :
             (/\ last'.op = "generate_response_local" /\ last'.status \in {200, 500}
              /\ GenerateLocal(data, create_ok, invoke_ok)
              /\ last'.cache_key \in DOMAIN _llm_cache)
             => /\ last'.hit
                /\ last'.ok = invoke_ok
                /\ last'.llm = _llm_cache[last'.cache_key]
                /\ _llm_cache' = _llm_cache
                /\ create_calls' = create_calls
       /\ \A k \in DOMAIN _llm_cache :
             (k \notin DOMAIN _llm_cache' \/ _llm_cache'[k] # _llm_cache[k])
             => (last'.op = "clear_cache_local" /\ _llm_cache' = EmptyDict)
       /\ last'.op = "clear_cache_local" => _llm_cache' = EmptyDict]_vars

\* a generation has been served from an instance created by an earlier request, after
\* a creation for another key had failed
C37_Witness ==
    /\ last.op = "generate_response_local" /\ last.ok /\ last.hit
    /\ last.id = "a"
    /\ create_calls = 2
    /\ DOMAIN _llm_cache = {last.cache_key}
    /\ last.llm = _llm_cache[last.cache_key]
    /\ last.llm.params["model_path"] = "a.gguf"

====
